---------------------------- MODULE Spec2Model ----------------------------
(***************************************************************************)
(* Model of the candidate consolidation and verification engine of         *)
(* backend/generate_damage_report_staged.py: canonicalization, cross-run   *)
(* clustering (union_parts), vote thresholds, representative selection     *)
(* (_prefer_part / _upgrade), verification consensus and the persisted     *)
(* superset of main().                                                     *)
(*                                                                         *)
(* Strings are sequences of character codes, so that strip, lower,         *)
(* replace, split, len and the lexicographic order are computed the way    *)
(* Python computes them.  A key that is absent from a dict (or holds       *)
(* None) is the value None below.  Confidences are hundredths.             *)
(***************************************************************************)
EXTENDS Integers, Sequences, FiniteSets, TLC

VARIABLES
  cfg,              \* the environment-derived settings of this process
  pNew, pBase,      \* arguments handed to _prefer_part
  pOut, pPC,        \* its results in both argument orders; position
  uNRuns,           \* union_parts: number of runs the loop has entered
  uCnt,             \* union_parts: items read from the current run
  clusters_by_key,  \* union_parts: key -> list of clusters, in insertion order
  uPC, uOut,        \* union_parts: position; the returned dict
  store,            \* the superset file of the image set, as last written
  mPC,              \* main: position of the current invocation
  inv,              \* number of invocations started so far
  superset_map,     \* main: key -> {count, part}, in insertion order
  superset_runs,    \* main: run_count read from the superset file
  loaded,           \* superset_map as _load_superset returned it
  results_by_idx,   \* Phase 1: result of every detection task
  runs,             \* Phase 1: the successful results in task order
  detected,         \* what union_parts returned
  objs,             \* the part objects of detected["damaged_parts"]
  objRef,           \* for every object, the superset entry holding it, or 0
  dmg,              \* detected["damaged_parts"] as indices into objs
  potential,        \* detected["potential_parts"]
  kept, dropped,    \* verification: lists filled as the futures complete
  vOutcome,         \* verification: what the oracle did for every object
  reports,          \* the reports written, one per completed invocation
  cIn,              \* canonicalize_part: the record handed to it
  cOnce, cTwice,    \* its result, and the result of applying it again
  cPC,              \* position of the two applications
  _openai_sem,      \* the counter of the module's semaphore
  calls,            \* for every pool thread, its oracle call in progress
  procs,            \* for every process on one image set, its invocation
  oRuns,            \* union_parts on its own: the runs of one detection stage
  oCall,            \* the last call made on them: order of the runs, result
  heap,             \* the dict objects alive during calls of union_parts
  hCall             \* the run records handed to it, and what the calls returned

prefVars == <<pNew, pBase, pOut, pPC>>
unionVars == <<uNRuns, uCnt, clusters_by_key, uPC, uOut>>
mainLocalVars == <<mPC, inv, superset_map, superset_runs, loaded, results_by_idx,
                   runs, detected, objs, objRef, dmg, potential, kept, dropped,
                   vOutcome, reports>>
mainVars == <<store, mainLocalVars>>
canonVars == <<cIn, cOnce, cTwice, cPC>>
callVars == <<_openai_sem, calls>>
pureVars == <<oRuns, oCall, heap, hCall>>
auxVars == <<canonVars, callVars, procs, pureVars>>
vars == <<cfg, prefVars, unionVars, mainVars, auxVars>>

\* the variables of main when main is not running
MainLocalUnused ==
  /\ mPC = "unused" /\ inv = 0
  /\ superset_map = <<>> /\ superset_runs = 0 /\ loaded = <<>>
  /\ results_by_idx = <<>> /\ runs = <<>>
  /\ detected = [damaged_parts |-> <<>>, potential_parts |-> <<>>]
  /\ objs = <<>> /\ objRef = <<>> /\ dmg = <<>> /\ potential = <<>>
  /\ kept = <<>> /\ dropped = <<>> /\ vOutcome = <<>> /\ reports = <<>>

\* main is not running and there is no file
MainUnused ==
  /\ store = [exists |-> FALSE, kind |-> "json", run_count |-> 0, parts |-> <<>>]
  /\ MainLocalUnused

\* canonicalize_part is not being applied on its own
CanonUnused == cIn = <<>> /\ cOnce = <<>> /\ cTwice = <<>> /\ cPC = "unused"

\* no thread is calling the oracle
CallsUnused == _openai_sem = 0 /\ calls = <<>>

\* no process is modelled on its own
ProcsUnused == procs = <<>>

\* union_parts is not being called on its own
PureUnused == oRuns = <<>> /\ oCall = <<>> /\ heap = <<>> /\ hCall = <<>>

AuxUnused == CanonUnused /\ CallsUnused /\ ProcsUnused /\ PureUnused

----------------------------------------------------------------------------
(* Python values *)

None == <<-1>>
EmptyStr == <<>>

Range(s) == {s[i] : i \in DOMAIN s}

\* s or ""
OrEmpty(s) == IF s = None THEN EmptyStr ELSE s

\* bool(x) of a string, a list or None
Truthy(x) == x # None /\ x # <<>>

IsSpace(c) == c \in {9, 10, 11, 12, 13, 32}

\* index of the first character that is not white space, Len(s) + 1 if none
FirstNonSpace(s) ==
  IF \A i \in 1..Len(s) : IsSpace(s[i]) THEN Len(s) + 1
  ELSE CHOOSE i \in 1..Len(s) :
         ~IsSpace(s[i]) /\ \A j \in 1..(i - 1) : IsSpace(s[j])

\* index of the last character that is not white space, 0 if none
LastNonSpace(s) ==
  IF \A i \in 1..Len(s) : IsSpace(s[i]) THEN 0
  ELSE CHOOSE i \in 1..Len(s) :
         ~IsSpace(s[i]) /\ \A j \in (i + 1)..Len(s) : IsSpace(s[j])

LStrip(s) == SubSeq(s, FirstNonSpace(s), Len(s))

RStrip(s) == SubSeq(s, 1, LastNonSpace(s))

\* str.strip()
Strip(s) == SubSeq(s, FirstNonSpace(s), LastNonSpace(s))

\* str.lower() on ASCII text
Lower(s) == [i \in 1..Len(s) |-> IF s[i] \in 65..90 THEN s[i] + 32 ELSE s[i]]

MatchAt(s, a, i) == SubSeq(s, i, i + Len(a) - 1) = a

\* a in s
Contains(s, a) == \E i \in 1..(Len(s) - Len(a) + 1) : MatchAt(s, a, i)

\* s.find(a) + 1 for an a that occurs in s
Find(s, a) ==
  CHOOSE i \in 1..(Len(s) - Len(a) + 1) :
    MatchAt(s, a, i) /\ \A j \in 1..(i - 1) : ~MatchAt(s, a, j)

\* s.replace(a, b) for a non-empty a: leftmost, non-overlapping occurrences
RECURSIVE Replace(_, _, _)
Replace(s, a, b) ==
  IF ~Contains(s, a) THEN s
  ELSE SubSeq(s, 1, Find(s, a) - 1) \o b
       \o Replace(SubSeq(s, Find(s, a) + Len(a), Len(s)), a, b)

\* length of the leading run of characters that are not white space
WordLen(s) ==
  IF \A i \in 1..Len(s) : ~IsSpace(s[i]) THEN Len(s)
  ELSE (CHOOSE i \in 1..Len(s) :
          IsSpace(s[i]) /\ \A j \in 1..(i - 1) : ~IsSpace(s[j])) - 1

\* s.split(): the maximal runs of non-space characters
RECURSIVE Split(_)
Split(s) ==
  IF FirstNonSpace(s) > Len(s) THEN <<>>
  ELSE <<SubSeq(LStrip(s), 1, WordLen(LStrip(s)))>>
       \o Split(SubSeq(LStrip(s), WordLen(LStrip(s)) + 1, Len(LStrip(s))))

\* " ".join(ws)
RECURSIVE JoinSp(_)
JoinSp(ws) ==
  IF ws = <<>> THEN <<>>
  ELSE IF Len(ws) = 1 THEN ws[1]
  ELSE ws[1] \o <<32>> \o JoinSp(Tail(ws))

\* s < t on strings (code point order, a proper prefix is smaller)
StrLess(s, t) ==
  \E i \in 1..Len(t) :
    /\ Len(s) >= i - 1
    /\ SubSeq(s, 1, i - 1) = SubSeq(t, 1, i - 1)
    /\ (Len(s) = i - 1 \/ s[i] < t[i])

\* a < b on tuples of strings
RECURSIVE TupleLess(_, _)
TupleLess(a, b) ==
  IF b = <<>> THEN FALSE
  ELSE IF a = <<>> THEN TRUE
  ELSE IF Head(a) # Head(b) THEN StrLess(Head(a), Head(b))
  ELSE TupleLess(Tail(a), Tail(b))

----------------------------------------------------------------------------
(* Canonicalization helpers *)

NameRepl ==
  <<
    << <<98, 111, 110, 110, 101, 116>>,
       <<104, 111, 111, 100>> >>,  \* ("bonnet", "hood")
    << <<98, 111, 111, 116>>,
       <<116, 114, 117, 110, 107>> >>,  \* ("boot", "trunk")
    << <<119, 105, 110, 100, 115, 99, 114, 101, 101, 110>>,
       <<119, 105, 110, 100, 115, 104, 105, 101, 108, 100>> >>,  \* ("windscreen", "windshield")
    << <<119, 105, 110, 103>>,
       <<102, 101, 110, 100, 101, 114>> >>,  \* ("wing", "fender")
    << <<103, 114, 105, 108, 108>>,
       <<103, 114, 105, 108, 108, 101>> >>,  \* ("grill", "grille")
    << <<104, 101, 97, 100, 108, 97, 109, 112>>,
       <<104, 101, 97, 100, 108, 105, 103, 104, 116>> >>,  \* ("headlamp", "headlight")
    << <<116, 97, 105, 108, 32, 108, 97, 109, 112>>,
       <<116, 97, 105, 108, 32, 108, 105, 103, 104, 116>> >>,  \* ("tail lamp", "tail light")
    << <<116, 97, 105, 108, 108, 97, 109, 112>>,
       <<116, 97, 105, 108, 32, 108, 105, 103, 104, 116>> >>,  \* ("taillamp", "tail light")
    << <<110, 117, 109, 98, 101, 114, 32, 112, 108, 97, 116, 101>>,
       <<108, 105, 99, 101, 110, 115, 101, 32, 112, 108, 97, 116, 101>> >>,  \* ("number plate", "license plate")
    << <<108, 105, 99, 101, 110, 115, 101, 45, 112, 108, 97, 116, 101>>,
       <<108, 105, 99, 101, 110, 115, 101, 32, 112, 108, 97, 116, 101>> >>,  \* ("license-plate", "license plate")
    << <<102, 111, 103, 108, 97, 109, 112>>,
       <<102, 111, 103, 32, 108, 105, 103, 104, 116>> >>,  \* ("foglamp", "fog light")
    << <<113, 117, 97, 114, 116, 101, 114, 112, 97, 110, 101, 108>>,
       <<113, 117, 97, 114, 116, 101, 114, 32, 112, 97, 110, 101, 108>> >>  \* ("quarterpanel", "quarter panel")
  >>
NameExtra ==
  <<
    << <<108, 105, 99, 101, 110, 99, 101>>,
       <<108, 105, 99, 101, 110, 115, 101>> >>,  \* ("licence", "license")
    << <<110, 117, 109, 98, 101, 114, 45, 112, 108, 97, 116, 101>>,
       <<108, 105, 99, 101, 110, 115, 101, 32, 112, 108, 97, 116, 101>> >>,  \* ("number-plate", "license plate")
    << <<110, 117, 109, 98, 101, 114, 112, 108, 97, 116, 101>>,
       <<108, 105, 99, 101, 110, 115, 101, 32, 112, 108, 97, 116, 101>> >>,  \* ("numberplate", "license plate")
    << <<103, 114, 105, 108, 108, 101, 101>>,
       <<103, 114, 105, 108, 108, 101>> >>  \* ("grillee", "grille")
  >>
LocRepl ==
  <<
    << <<45>>,
       <<32>> >>,  \* ("-", " ")
    << <<100, 114, 105, 118, 101, 114, 32, 115, 105, 100, 101>>,
       <<108, 101, 102, 116>> >>,  \* ("driver side", "left")
    << <<112, 97, 115, 115, 101, 110, 103, 101, 114, 32, 115, 105, 100, 101>>,
       <<114, 105, 103, 104, 116>> >>,  \* ("passenger side", "right")
    << <<110, 101, 97, 114, 32, 115, 105, 100, 101>>,
       <<108, 101, 102, 116>> >>,  \* ("near side", "left")
    << <<110, 101, 97, 114, 115, 105, 100, 101>>,
       <<108, 101, 102, 116>> >>,  \* ("nearside", "left")
    << <<111, 102, 102, 32, 115, 105, 100, 101>>,
       <<114, 105, 103, 104, 116>> >>,  \* ("off side", "right")
    << <<111, 102, 102, 115, 105, 100, 101>>,
       <<114, 105, 103, 104, 116>> >>,  \* ("offside", "right")
    << <<102, 114, 111, 110, 116, 32, 101, 110, 100>>,
       <<102, 114, 111, 110, 116>> >>,  \* ("front end", "front")
    << <<114, 101, 97, 114, 32, 101, 110, 100>>,
       <<114, 101, 97, 114>> >>,  \* ("rear end", "rear")
    << <<98, 97, 99, 107>>,
       <<114, 101, 97, 114>> >>  \* ("back", "rear")
  >>
SeverityMapping ==
  <<
    << <<108, 111, 119>>,
       <<109, 105, 110, 111, 114>> >>,  \* ("low", "minor")
    << <<109, 105, 110, 111, 114>>,
       <<109, 105, 110, 111, 114>> >>,  \* ("minor", "minor")
    << <<115, 108, 105, 103, 104, 116>>,
       <<109, 105, 110, 111, 114>> >>,  \* ("slight", "minor")
    << <<108, 105, 103, 104, 116>>,
       <<109, 105, 110, 111, 114>> >>,  \* ("light", "minor")
    << <<109, 101, 100, 105, 117, 109>>,
       <<109, 111, 100, 101, 114, 97, 116, 101>> >>,  \* ("medium", "moderate")
    << <<109, 111, 100, 101, 114, 97, 116, 101>>,
       <<109, 111, 100, 101, 114, 97, 116, 101>> >>,  \* ("moderate", "moderate")
    << <<104, 105, 103, 104>>,
       <<115, 101, 118, 101, 114, 101>> >>,  \* ("high", "severe")
    << <<115, 101, 118, 101, 114, 101>>,
       <<115, 101, 118, 101, 114, 101>> >>,  \* ("severe", "severe")
    << <<109, 97, 106, 111, 114>>,
       <<115, 101, 118, 101, 114, 101>> >>,  \* ("major", "severe")
    << <<101, 120, 116, 114, 101, 109, 101>>,
       <<115, 101, 118, 101, 114, 101>> >>  \* ("extreme", "severe")
  >>
S_minor == <<109, 105, 110, 111, 114>>  \* "minor"
S_moderate == <<109, 111, 100, 101, 114, 97, 116, 101>>  \* "moderate"
S_severe == <<115, 101, 118, 101, 114, 101>>  \* "severe"
S_front == <<102, 114, 111, 110, 116>>  \* "front"
S_rear == <<114, 101, 97, 114>>  \* "rear"
S_left == <<108, 101, 102, 116>>  \* "left"
S_right == <<114, 105, 103, 104, 116>>  \* "right"

\* index of the first pair of the table whose pattern occurs in t, 0 if none
FirstHit(t, table) ==
  IF \A i \in 1..Len(table) : ~Contains(t, table[i][1]) THEN 0
  ELSE CHOOSE i \in 1..Len(table) :
         Contains(t, table[i][1]) /\ \A j \in 1..(i - 1) : ~Contains(t, table[j][1])

\* fold of "if a in t: t = t.replace(a, b)" over a table of (a, b) pairs:
\* the pairs before the first hit leave t alone
RECURSIVE ApplyRepl(_, _)
ApplyRepl(t, table) ==
  IF FirstHit(t, table) = 0 THEN t
  ELSE ApplyRepl(Replace(t, table[FirstHit(t, table)][1], table[FirstHit(t, table)][2]),
                 SubSeq(table, FirstHit(t, table) + 1, Len(table)))

\* table.get(k, default) for a table of (key, value) pairs with distinct keys
Lookup(table, k, default) ==
  IF \A i \in 1..Len(table) : table[i][1] # k THEN default
  ELSE table[CHOOSE i \in 1..Len(table) : table[i][1] = k][2]

_norm(s) == Lower(Strip(OrEmpty(s)))

_canon_severity(s) == Lookup(SeverityMapping, _norm(s), S_minor)

LocationOrder == <<S_front, S_rear, S_left, S_right>>

_canon_location(s, name) ==
  LET t     == ApplyRepl(_norm(s), LocRepl)
      words == Split(t)
      n     == Replace(_norm(name), <<45>>, <<32>>)
      flags == Range(words) \cup
                 (IF Truthy(name)
                  THEN {w \in Range(Split(n)) : w \in Range(LocationOrder)}
                  ELSE {})
      InFlags(w) == w \in flags
      composed == JoinSp(SelectSeq(LocationOrder, InFlags))
  IN IF composed # <<>> THEN composed ELSE t

_canon_name(s) == ApplyRepl(ApplyRepl(_norm(s), NameRepl), NameExtra)

_canon_category(s) == _norm(s)

----------------------------------------------------------------------------
(* Part records.  Every dict key a part may carry is a field; None (or -1  *)
(* for _votes, "" for _potential_reason) stands for an absent key.         *)

\* the _verify key: absent, the empty dict, or the evidence of verify_one
NoEvidence ==
  [kind |-> "absent", passes |-> <<>>, threshold |-> 0, votes_yes |-> 0, consensus_required |-> 0]

EmptyEvidence == [NoEvidence EXCEPT !.kind = "empty"]

EmptyPart ==
  [name |-> None, location |-> None, category |-> None, severity |-> None,
   description |-> None, damage_description |-> None, bbox_px |-> None,
   image |-> None, _votes |-> -1, _potential_reason |-> "", _verify |-> NoEvidence]

canonicalize_part(p) ==
  LET nm == _canon_name(p.name)
  IN [p EXCEPT !.name = nm,
               !.location = _canon_location(p.location, nm),
               !.category = _canon_category(p.category),
               !.severity = IF p.severity # None THEN _canon_severity(p.severity) ELSE None]

_key_for_part(p) == <<_norm(p.name), _norm(p.location)>>

\* SEVERITY_PRIORITY_GLOBAL.get(p.get("severity", "minor"), 1)
SeverityPriority(p) ==
  IF p.severity = S_severe THEN 3
  ELSE IF p.severity = S_moderate THEN 2
  ELSE 1

\* str(p.get("description", p.get("damage_description", "")))
DescOf(p) ==
  IF p.description # None THEN p.description
  ELSE IF p.damage_description # None THEN p.damage_description
  ELSE EmptyStr

LexKey(p) == <<_norm(p.name), _norm(p.location), _norm(DescOf(p))>>

\* the same selector with the "ns < bs" early return left out
_prefer_part_no_lower_rank(new, base) ==
  IF base = EmptyPart THEN new
  ELSE IF SeverityPriority(new) > SeverityPriority(base) THEN new
  ELSE IF Len(DescOf(new)) > Len(DescOf(base)) THEN new
  ELSE IF Len(DescOf(new)) < Len(DescOf(base)) THEN base
  ELSE IF TupleLess(LexKey(new), LexKey(base)) THEN new ELSE base

_prefer_part(new, base) ==
  IF base = EmptyPart THEN new
  ELSE IF SeverityPriority(new) > SeverityPriority(base) THEN new
  ELSE IF SeverityPriority(new) < SeverityPriority(base) THEN base
  ELSE IF Len(DescOf(new)) > Len(DescOf(base)) THEN new
  ELSE IF Len(DescOf(new)) < Len(DescOf(base)) THEN base
  ELSE IF TupleLess(LexKey(new), LexKey(base)) THEN new ELSE base

\* union_parts._upgrade: the candidate replaces the representative when it
\* is strictly preferred, and then inherits a missing image / bbox_px
_upgrade(base, cand) ==
  LET choose ==
        \/ SeverityPriority(cand) > SeverityPriority(base)
        \/ /\ SeverityPriority(cand) = SeverityPriority(base)
           /\ Len(DescOf(cand)) > Len(DescOf(base))
        \/ /\ SeverityPriority(cand) = SeverityPriority(base)
           /\ Len(DescOf(cand)) = Len(DescOf(base))
           /\ TupleLess(LexKey(cand), LexKey(base))
  IN IF choose
     THEN [cand EXCEPT
             !.image = IF ~Truthy(cand.image) /\ Truthy(base.image)
                       THEN base.image ELSE cand.image,
             !.bbox_px = IF ~Truthy(cand.bbox_px) /\ Truthy(base.bbox_px)
                         THEN base.bbox_px ELSE cand.bbox_px]
     ELSE base

----------------------------------------------------------------------------
(* Settings read from the environment at import time (lines 47-87).        *)
(* CLUSTER_IOU_THRESH, the VERIFY_CONF_* values and OPENAI_BACKOFF_BASE    *)
(* are hundredths.                                                         *)

DefaultConfig ==
  [MIN_VOTES_PER_PART |-> 2, MIN_VOTES_SEVERE |-> 2, MIN_VOTES_MODERATE |-> 2,
   MIN_VOTES_MINOR |-> 3, COMPREHENSIVE_MODE |-> FALSE, CLUSTER_IOU_THRESH |-> 40,
   PERSIST_MAX_UNION |-> TRUE, PERSIST_MIN_SUPPORT |-> 1,
   ENABLE_COMPLETENESS_PASS |-> TRUE, PHASE2_ALLOW_NEW_PARTS |-> FALSE,
   ENABLE_VERIFICATION_PASS |-> TRUE,
   VERIFY_CONF_SEVERE |-> 65, VERIFY_CONF_MODERATE |-> 65, VERIFY_CONF_MINOR |-> 65,
   VERIFY_REQUIRE_PASSES_SEVERE |-> 2, VERIFY_REQUIRE_PASSES_MODERATE |-> 2,
   VERIFY_REQUIRE_PASSES_MINOR |-> 1, VERIFY_TEMPS |-> <<0, 20>>,
   OPENAI_MAX_RETRIES |-> 5, OPENAI_BACKOFF_BASE |-> 50, OPENAI_CONCURRENCY |-> 4]

----------------------------------------------------------------------------
(* Records the detection oracle may return *)

MkPart(name, location, severity, description, bbox, image) ==
  [EmptyPart EXCEPT !.name = name, !.location = location, !.severity = severity,
                    !.description = description, !.bbox_px = bbox, !.image = image]

T_Hood == <<72, 111, 111, 100>>                                  \* "Hood"
T_Bonnet == <<66, 111, 110, 110, 101, 116>>                      \* "Bonnet"
T_FrontGrill == <<70, 114, 111, 110, 116, 32, 71, 114, 105, 108, 108>>  \* "Front Grill"
T_RearBumper == <<82, 101, 97, 114, 32, 66, 117, 109, 112, 101, 114>>   \* "Rear Bumper"
T_Front == <<70, 114, 111, 110, 116>>                            \* "Front"
T_back == <<98, 97, 99, 107>>                                    \* "back"
T_high == <<104, 105, 103, 104>>                                 \* "high"
T_dent == <<100, 101, 110, 116>>                                 \* "dent"
T_Dent == <<68, 101, 110, 116>>                                  \* "Dent"
T_bent == <<98, 101, 110, 116>>                                  \* "bent"
T_deep_dent == <<100, 101, 101, 112, 32, 100, 101, 110, 116>>    \* "deep dent"
T_a_jpg == <<97, 46, 106, 112, 103>>                             \* "a.jpg"

----------------------------------------------------------------------------
(* The representative selector on its own: _prefer_part and _upgrade       *)
(* applied to a pair of records in both argument orders.                   *)

PreferParts ==
  { canonicalize_part(MkPart(n, T_Front, s, d, None, i)) :
      n \in {T_Hood, T_FrontGrill},
      s \in {None, S_minor, T_high},
      d \in {None, T_dent, T_Dent, T_bent, T_deep_dent},
      i \in {None, T_a_jpg} }

PreferInit ==
  /\ cfg = DefaultConfig
  /\ pNew \in PreferParts
  /\ pBase \in PreferParts \cup {EmptyPart}
  /\ pOut = <<>>
  /\ pPC = "start"
  /\ uNRuns = 0 /\ uCnt = 0 /\ clusters_by_key = <<>> /\ uPC = "idle"
  /\ uOut = [damaged_parts |-> <<>>, potential_parts |-> <<>>]
  /\ MainUnused
  /\ AuxUnused

\* _prefer_part(new, base), as main and _load_superset call it
PreferForward ==
  /\ pPC = "start"
  /\ pOut' = <<_prefer_part(pNew, pBase)>>
  /\ pPC' = "forward"
  /\ UNCHANGED <<cfg, pNew, pBase, unionVars, mainVars, auxVars>>

\* the same pair with the arguments exchanged
PreferBackward ==
  /\ pPC = "forward"
  /\ pOut' = Append(pOut, _prefer_part(pBase, pNew))
  /\ pPC' = "backward"
  /\ UNCHANGED <<cfg, pNew, pBase, unionVars, mainVars, auxVars>>

\* union_parts._upgrade(base, cand) on the same pair (base is a cluster's
\* representative, never an empty dict)
PreferUpgrade ==
  /\ pPC = "backward"
  /\ pBase # EmptyPart
  /\ pOut' = Append(pOut, _upgrade(pBase, pNew))
  /\ pPC' = "done"
  /\ UNCHANGED <<cfg, pNew, pBase, unionVars, mainVars, auxVars>>

PreferNext == PreferForward \/ PreferBackward \/ PreferUpgrade

SpecPrefer == PreferInit /\ [][PreferNext]_vars

\* the total preorder of section 4.4: severity rank, description length,
\* then the normalised (name, location, description)
RankKey(p) == <<SeverityPriority(p), Len(DescOf(p))>>

Better(a, b) ==
  \/ SeverityPriority(a) > SeverityPriority(b)
  \/ /\ SeverityPriority(a) = SeverityPriority(b)
     /\ Len(DescOf(a)) > Len(DescOf(b))
  \/ /\ RankKey(a) = RankKey(b)
     /\ TupleLess(LexKey(a), LexKey(b))

Tied(a, b) == RankKey(a) = RankKey(b) /\ LexKey(a) = LexKey(b)

\* C9 (as stated): for any two distinct records, _prefer_part(a, b) and
\* _prefer_part(b, a) return the same record.
C9_PreferIgnoresArgumentOrder ==
  (pPC \in {"backward", "done"} /\ pBase # EmptyPart /\ pNew # pBase)
    => pOut[1] = pOut[2]

\* C9 (amended): for two non-empty records that differ in severity rank,
\* description length or normalised (name, location, description), both
\* argument orders return the same record - the one with the higher severity,
\* else the longer description, else the lexicographically smaller triple -
\* and _upgrade moves to the candidate exactly when the candidate is that
\* record; for two records tied on all three, the second argument (base) is
\* returned, so the result follows the argument order.
C9_PreferOrderUpToTies ==
  (pPC \in {"backward", "done"} /\ pBase # EmptyPart) =>
    /\ ~Tied(pNew, pBase) =>
         /\ pOut[1] = pOut[2]
         /\ pOut[1] = (IF Better(pNew, pBase) THEN pNew ELSE pBase)
    /\ Tied(pNew, pBase) => (pOut[1] = pBase /\ pOut[2] = pNew)
    /\ pPC = "done" =>
         /\ Better(pNew, pBase) => _key_for_part(pOut[3]) = _key_for_part(pNew)
                                   /\ RankKey(pOut[3]) = RankKey(pNew)
                                   /\ DescOf(pOut[3]) = DescOf(pNew)
         /\ ~Better(pNew, pBase) => pOut[3] = pBase

\* two records of equal severity and description length, decided by the
\* lexicographic comparison alone, the same way in both orders
C9_Witness ==
  /\ pPC = "done"
  /\ pNew # pBase
  /\ RankKey(pNew) = RankKey(pBase)
  /\ TupleLess(LexKey(pNew), LexKey(pBase))
  /\ pOut[1] = pNew /\ pOut[2] = pNew

----------------------------------------------------------------------------
(* union_parts: IoU-clustered vote aggregation across runs *)

Max(a, b) == IF a >= b THEN a ELSE b
Min(a, b) == IF a <= b THEN a ELSE b

\* items of a run's damaged_parts list: a dict, a bare string, or anything else
DictItem(p) == [kind |-> "dict", part |-> p, text |-> EmptyStr]
StrItem(s) == [kind |-> "str", part |-> EmptyPart, text |-> s]

\* str.lstrip("-*•")
RECURSIVE LStripBullets(_)
LStripBullets(s) ==
  IF s # <<>> /\ Head(s) \in {45, 42, 8226} THEN LStripBullets(Tail(s)) ELSE s

\* union_parts.sanitize_parts on one item: the canonicalized parts it yields
SanitizeItem(item) ==
  IF item.kind = "dict" THEN <<canonicalize_part(item.part)>>
  ELSE IF item.kind = "str"
  THEN LET name == Strip(LStripBullets(Strip(item.text)))
       IN IF name # <<>>
          THEN <<canonicalize_part([EmptyPart EXCEPT !.name = name,
                                                      !.severity = S_minor,
                                                      !.damage_description = EmptyStr])>>
          ELSE <<>>
  ELSE <<>>

RECURSIVE sanitize_parts(_)
sanitize_parts(items) ==
  IF items = <<>> THEN <<>>
  ELSE SanitizeItem(Head(items)) \o sanitize_parts(Tail(items))

\* iou(cb, cand_bbox) > CLUSTER_IOU_THRESH in place of >=
IouAbove(box_a, box_b, thr) ==
  LET wa == box_a[3] - box_a[1]
      ha == box_a[4] - box_a[2]
      wb == box_b[3] - box_b[1]
      hb == box_b[4] - box_b[2]
      inter_w == Max(0, Min(box_a[3], box_b[3]) - Max(box_a[1], box_b[1]))
      inter_h == Max(0, Min(box_a[4], box_b[4]) - Max(box_a[2], box_b[2]))
      inter_area == inter_w * inter_h
      union_area == wa * ha + wb * hb - inter_area
  IN IF union_area = 0 THEN 0 > thr
     ELSE IF union_area > 0 THEN inter_area * 100 > thr * union_area
     ELSE inter_area * 100 < thr * union_area

\* iou(box_a, box_b) >= thr/100 for boxes in the list format [x1, y1, x2, y2]
IouAtLeast(box_a, box_b, thr) ==
  LET wa == box_a[3] - box_a[1]
      ha == box_a[4] - box_a[2]
      wb == box_b[3] - box_b[1]
      hb == box_b[4] - box_b[2]
      inter_w == Max(0, Min(box_a[3], box_b[3]) - Max(box_a[1], box_b[1]))
      inter_h == Max(0, Min(box_a[4], box_b[4]) - Max(box_a[2], box_b[2]))
      inter_area == inter_w * inter_h
      union_area == wa * ha + wb * hb - inter_area
  IN IF union_area = 0 THEN 0 >= thr
     ELSE IF union_area > 0 THEN inter_area * 100 >= thr * union_area
     ELSE inter_area * 100 <= thr * union_area

_get_bbox(p) == IF Truthy(p.bbox_px) THEN p.bbox_px ELSE None

\* union_parts._match_cluster: index of the matching cluster in the key's
\* list, 0 for no match
RECURSIVE MatchFrom(_, _, _, _)
MatchFrom(clusters, cand_bbox, i, thr) ==
  IF i > Len(clusters) THEN 0
  ELSE IF cand_bbox = None
       THEN (IF clusters[i].bbox_px = None THEN i
             ELSE MatchFrom(clusters, cand_bbox, i + 1, thr))
       ELSE IF clusters[i].bbox_px # None
               /\ IouAtLeast(clusters[i].bbox_px, cand_bbox, thr)
            THEN i
            ELSE MatchFrom(clusters, cand_bbox, i + 1, thr)

\* the first cluster of the key, whatever the boxes
_match_first_cluster(clusters, cand_bbox) == IF clusters = <<>> THEN 0 ELSE 1

_match_cluster(clusters, cand_bbox) ==
  MatchFrom(clusters, cand_bbox, 1, cfg.CLUSTER_IOU_THRESH)

\* position of key in the insertion-ordered dict clusters_by_key, 0 if absent
RECURSIVE KeyIndexFrom(_, _, _)
KeyIndexFrom(cbk, key, i) ==
  IF i > Len(cbk) THEN 0
  ELSE IF cbk[i].key = key THEN i
  ELSE KeyIndexFrom(cbk, key, i + 1)

KeyIndex(cbk, key) == KeyIndexFrom(cbk, key, 1)

\* a cluster counts every candidate it absorbed instead of its runs
ClusterVotesPerCandidate(cl) == cl.n

\* len(cl["runs"])
ClusterVotes(cl) == Cardinality(cl.runs)

PartKey(p) == <<_norm(p.name), _norm(p.location)>>

\* lines 643-651: the key's cluster list after the candidate; m is the index
\* of the matching cluster, 0 for none.  hist is a history field: the run
\* index of every candidate the cluster absorbed, in order
AddToClusters(clusters, m, cand, rid) ==
  IF m = 0
  THEN Append(clusters, [rep |-> cand, runs |-> {rid}, bbox_px |-> _get_bbox(cand),
                         n |-> 1, hist |-> <<rid>>])
  ELSE [clusters EXCEPT ![m] =
          [rep |-> _upgrade(clusters[m].rep, cand),
           runs |-> clusters[m].runs \cup {rid},
           bbox_px |-> clusters[m].bbox_px,
           n |-> clusters[m].n + 1,
           hist |-> Append(clusters[m].hist, rid)]]

\* the candidate matched against the clusters of the k-th key
ProcessKeyed(cbk, k, cand, rid) ==
  [cbk EXCEPT ![k].clusters =
     AddToClusters(cbk[k].clusters,
                   _match_cluster(cbk[k].clusters, _get_bbox(cand)), cand, rid)]

\* clusters_by_key.setdefault(key, [])
SetDefault(cbk, key) ==
  IF KeyIndex(cbk, key) = 0 THEN Append(cbk, [key |-> key, clusters |-> <<>>])
  ELSE cbk

\* body of the loop over the candidates of run rid (lines 639-651)
ProcessCand(cbk, rid, cand) ==
  IF KeyIndex(cbk, PartKey(cand)) = 0
  THEN ProcessKeyed(SetDefault(cbk, PartKey(cand)), Len(cbk) + 1, cand, rid)
  ELSE ProcessKeyed(cbk, KeyIndex(cbk, PartKey(cand)), cand, rid)

RECURSIVE ProcessCands(_, _, _)
ProcessCands(cbk, rid, cands) ==
  IF cands = <<>> THEN cbk
  ELSE ProcessCands(ProcessCand(cbk, rid, Head(cands)), rid, Tail(cands))

\* all clusters in dict order (by key insertion, then cluster creation)
RECURSIVE FlatClusters(_)
FlatClusters(cbk) ==
  IF cbk = <<>> THEN <<>> ELSE Head(cbk).clusters \o FlatClusters(Tail(cbk))

\* lines 654-659: each representative with its vote count attached
FlattenParts(cbk) ==
  LET cls == FlatClusters(cbk)
  IN [i \in 1..Len(cls) |-> [cls[i].rep EXCEPT !._votes = ClusterVotes(cls[i])]]

\* union_parts._thr
_thr(p) ==
  LET sev == Lower(Strip(IF Truthy(p.severity) THEN p.severity ELSE S_minor))
  IN IF sev = S_severe THEN Max(1, cfg.MIN_VOTES_SEVERE)
     ELSE IF sev = S_moderate THEN Max(1, cfg.MIN_VOTES_MODERATE)
     ELSE Max(1, cfg.MIN_VOTES_MINOR)

VotesOf(p) == IF p._votes = -1 THEN 0 ELSE p._votes

\* the filter with a strict comparison
MeetsThresholdStrict(p) == VotesOf(p) > Max(cfg.MIN_VOTES_PER_PART, _thr(p))

\* the condition of the list comprehension on line 672
MeetsThreshold(p) == VotesOf(p) >= Max(cfg.MIN_VOTES_PER_PART, _thr(p))

KeysOf(parts) == {PartKey(parts[i]) : i \in DOMAIN parts}

\* the potential list left empty
PotentialFromVotesNone(raw_parts, filtered) == <<>>

\* lines 676-689: the first below-threshold cluster of every key that has no
\* confirmed cluster, as a copy tagged with the reason
\* the potential list without the seen_pot check: every cluster of a key
\* that has no confirmed cluster
RECURSIVE PotentialAccEvery(_, _, _, _)
PotentialAccEvery(raw_parts, def_keys, seen_pot, acc) ==
  IF raw_parts = <<>> THEN acc
  ELSE IF PartKey(Head(raw_parts)) \in def_keys
       THEN PotentialAccEvery(Tail(raw_parts), def_keys, seen_pot, acc)
       ELSE PotentialAccEvery(Tail(raw_parts), def_keys, seen_pot,
              Append(acc, [Head(raw_parts) EXCEPT !._potential_reason = "insufficient_votes"]))

RECURSIVE PotentialAcc(_, _, _, _)
PotentialAcc(raw_parts, def_keys, seen_pot, acc) ==
  IF raw_parts = <<>> THEN acc
  ELSE LET rp == Head(raw_parts)
           k  == PartKey(rp)
       IN IF k \in def_keys \/ k \in seen_pot
          THEN PotentialAcc(Tail(raw_parts), def_keys, seen_pot, acc)
          ELSE PotentialAcc(Tail(raw_parts), def_keys, seen_pot \cup {k},
                 Append(acc, [rp EXCEPT !._potential_reason =
                                 IF rp._potential_reason = ""
                                 THEN "insufficient_votes"
                                 ELSE rp._potential_reason]))

PotentialFromVotes(raw_parts, filtered) ==
  IF cfg.COMPREHENSIVE_MODE
  THEN PotentialAcc(raw_parts, KeysOf(filtered), {}, <<>>)
  ELSE <<>>

\* sort key of line 692: (-votes, -severity priority, name, location)
SortBefore(a, b) ==
  IF VotesOf(a) # VotesOf(b) THEN VotesOf(a) > VotesOf(b)
  ELSE IF SeverityPriority(a) # SeverityPriority(b)
       THEN SeverityPriority(a) > SeverityPriority(b)
  ELSE TupleLess(PartKey(a), PartKey(b))

\* list.sort is stable: x goes before the first element it precedes
RECURSIVE InsertSorted(_, _)
InsertSorted(sorted, x) ==
  IF sorted = <<>> THEN <<x>>
  ELSE IF SortBefore(x, Head(sorted)) THEN <<x>> \o sorted
  ELSE <<Head(sorted)>> \o InsertSorted(Tail(sorted), x)

RECURSIVE SortParts(_)
SortParts(parts) ==
  IF parts = <<>> THEN <<>>
  ELSE InsertSorted(SortParts(SubSeq(parts, 1, Len(parts) - 1)), parts[Len(parts)])

\* lines 661-704 on the clusters built by the loop.  potential_parts is the
\* empty list when the returned dict has no such key.
UnionResult(cbk) ==
  LET raw_parts == FlattenParts(cbk)
      filtered  == SelectSeq(raw_parts, MeetsThreshold)
  IN [damaged_parts   |-> SortParts(filtered),
      potential_parts |-> PotentialFromVotes(raw_parts, filtered)]

RECURSIVE UnionLoop(_, _, _)
UnionLoop(cbk, run_list, rid) ==
  IF run_list = <<>> THEN cbk
  ELSE UnionLoop(ProcessCands(cbk, rid, sanitize_parts(Head(run_list))), Tail(run_list), rid + 1)

\* union_parts(runs); a run is its damaged_parts list (the vehicle merge is
\* left out: it does not touch the parts)
union_parts(run_list) ==
  IF run_list = <<>> THEN [damaged_parts |-> <<>>, potential_parts |-> <<>>]
  ELSE UnionResult(UnionLoop(<<>>, run_list, 0))

----------------------------------------------------------------------------
(* union_parts step by step: the runs are read one candidate at a time     *)

MaxRuns == 3
MaxCandsPerRun == 2

SmartConfig ==
  [DefaultConfig EXCEPT !.COMPREHENSIVE_MODE = TRUE, !.CLUSTER_IOU_THRESH = 45,
     !.MIN_VOTES_PER_PART = 1, !.MIN_VOTES_SEVERE = 2, !.MIN_VOTES_MODERATE = 1,
     !.MIN_VOTES_MINOR = 1, !.PHASE2_ALLOW_NEW_PARTS = TRUE,
     !.VERIFY_CONF_SEVERE = 60, !.VERIFY_CONF_MODERATE = 55, !.VERIFY_CONF_MINOR = 45,
     !.VERIFY_TEMPS = <<0, 30>>]

UnionConfigs ==
  { DefaultConfig,
    [DefaultConfig EXCEPT !.COMPREHENSIVE_MODE = TRUE],
    SmartConfig,
    [DefaultConfig EXCEPT !.COMPREHENSIVE_MODE = TRUE, !.MIN_VOTES_PER_PART = 0,
       !.MIN_VOTES_SEVERE = 0, !.MIN_VOTES_MODERATE = 0, !.MIN_VOTES_MINOR = 0],
    [DefaultConfig EXCEPT !.MIN_VOTES_PER_PART = 1, !.MIN_VOTES_SEVERE = 3,
       !.MIN_VOTES_MODERATE = 3, !.MIN_VOTES_MINOR = 1],
    [DefaultConfig EXCEPT !.COMPREHENSIVE_MODE = TRUE, !.MIN_VOTES_PER_PART = 3,
       !.MIN_VOTES_SEVERE = 1, !.MIN_VOTES_MODERATE = 2, !.MIN_VOTES_MINOR = 1] }

BoxA == <<0, 0, 10, 10>>
BoxB == <<0, 0, 10, 4>>      \* IoU with BoxA is 40/100
BoxC == <<20, 20, 30, 30>>   \* disjoint from BoxA and BoxB

T_dash_rear_bumper == <<45, 32, 114, 101, 97, 114, 32, 98, 117, 109, 112, 101, 114>>  \* "- rear bumper"

UnionItems ==
  { DictItem(MkPart(T_Bonnet, T_Front, T_high, T_deep_dent, None, T_a_jpg)),
    DictItem(MkPart(T_Hood, T_Front, S_minor, T_dent, BoxA, None)),
    DictItem(MkPart(T_Hood, T_Front, S_moderate, T_Dent, BoxB, None)),
    DictItem(MkPart(T_Hood, T_Front, S_minor, T_dent, BoxC, None)),
    DictItem(MkPart(T_RearBumper, T_back, None, None, None, None)),
    StrItem(T_dash_rear_bumper) }

\* sanitize_parts applied to each item the oracle may return
SanitizedItem == [item \in UnionItems |-> SanitizeItem(item)]

UnionInit ==
  /\ cfg \in UnionConfigs
  /\ uNRuns = 0
  /\ uCnt = 0
  /\ clusters_by_key = <<>>
  /\ uPC = "loop"
  /\ uOut = [damaged_parts |-> <<>>, potential_parts |-> <<>>]
  /\ pNew = EmptyPart /\ pBase = EmptyPart /\ pOut = <<>> /\ pPC = "idle"
  /\ MainUnused
  /\ AuxUnused

\* enumerate(runs) reaches the next run
UnionNextRun ==
  /\ uPC = "loop"
  /\ uNRuns < MaxRuns
  /\ uNRuns' = uNRuns + 1
  /\ uCnt' = 0
  /\ UNCHANGED <<cfg, clusters_by_key, uPC, uOut, prefVars, mainVars, auxVars>>

\* the next item of the current run is sanitized and clustered
UnionCand ==
  /\ uPC = "loop"
  /\ uNRuns >= 1
  /\ uCnt < MaxCandsPerRun
  /\ \E item \in UnionItems :
       clusters_by_key' =
         ProcessCands(clusters_by_key, uNRuns - 1, SanitizedItem[item])
  /\ uCnt' = uCnt + 1
  /\ UNCHANGED <<cfg, uNRuns, uPC, uOut, prefVars, mainVars, auxVars>>

\* the runs are exhausted: flatten, filter, sort and return
UnionFinish ==
  /\ uPC = "loop"
  /\ uOut' = IF uNRuns = 0
             THEN [damaged_parts |-> <<>>, potential_parts |-> <<>>]
             ELSE UnionResult(clusters_by_key)
  /\ uPC' = "done"
  /\ UNCHANGED <<cfg, uNRuns, uCnt, clusters_by_key, prefVars, mainVars, auxVars>>

UnionNext == UnionNextRun \/ UnionCand \/ UnionFinish

SpecUnion == UnionInit /\ [][UnionNext]_vars

\* number of positions of a sequence holding the value v
CountIn(s, v) == Cardinality({i \in DOMAIN s : s[i] = v})

\* the clusters at return and the parts made of them, in dict order
FinalClusters == FlatClusters(clusters_by_key)
RawParts == FlattenParts(clusters_by_key)

\* C1: after union_parts has processed the runs, the _votes of every
\* cluster's part is the number of distinct run indices among the candidates
\* the cluster absorbed; several candidates of one run count once.
C1_VotesAreDistinctRuns ==
  /\ \A i \in DOMAIN FinalClusters :
       RawParts[i]._votes = Cardinality(Range(FinalClusters[i].hist))
  /\ uPC = "done" =>
       \A p \in Range(uOut.damaged_parts) \cup Range(uOut.potential_parts) :
         \E i \in DOMAIN FinalClusters :
           /\ [p EXCEPT !._votes = -1, !._potential_reason = ""] = FinalClusters[i].rep
           /\ p._votes = Cardinality(Range(FinalClusters[i].hist))

\* a cluster that absorbed two candidates of the same run and candidates of
\* two runs in all
C1_Witness ==
  /\ uPC = "done"
  /\ \E i \in DOMAIN FinalClusters :
       /\ Len(FinalClusters[i].hist) = 3
       /\ Cardinality(Range(FinalClusters[i].hist)) = 2
       /\ RawParts[i]._votes = 2
       /\ RawParts[i] \in Range(uOut.damaged_parts)

\* the threshold of section 4.3 for a part, from the settings
RequiredVotes(p) ==
  LET t == IF p.severity = S_severe THEN cfg.MIN_VOTES_SEVERE
           ELSE IF p.severity = S_moderate THEN cfg.MIN_VOTES_MODERATE
           ELSE cfg.MIN_VOTES_MINOR
  IN Max(cfg.MIN_VOTES_PER_PART, Max(1, t))

\* C2: a cluster is in damaged_parts if and only if its votes are at least
\* T = max(MIN_VOTES_PER_PART, max(1, threshold of its representative's
\* severity)).
C2_ConfirmedIffThreshold ==
  uPC = "done" =>
    /\ \A i \in DOMAIN RawParts :
         CountIn(uOut.damaged_parts, RawParts[i]) =
           (IF RawParts[i]._votes >= RequiredVotes(RawParts[i])
            THEN CountIn(RawParts, RawParts[i]) ELSE 0)
    /\ Range(uOut.damaged_parts) \subseteq Range(RawParts)

\* for each severity, a cluster exactly at T that is included and one at T-1
\* that is excluded (the run needs three severities at a boundary: seen over
\* the settings, each severity has both)
C2_Witness ==
  /\ uPC = "done"
  /\ \E i, j \in DOMAIN RawParts :
       /\ RawParts[i]._votes = RequiredVotes(RawParts[i])
       /\ RawParts[i] \in Range(uOut.damaged_parts)
       /\ RawParts[j]._votes = RequiredVotes(RawParts[j]) - 1
       /\ RawParts[j] \notin Range(uOut.damaged_parts)
       /\ RawParts[i].severity = S_severe
       /\ RawParts[j].severity = S_moderate

InsufficientCopy(p) == [p EXCEPT !._potential_reason = "insufficient_votes"]

\* C3 (as stated): in comprehensive mode every cluster that fails the vote
\* threshold is in potential_parts with reason insufficient_votes.
C3_EveryFailingClusterIsPotential ==
  (uPC = "done" /\ cfg.COMPREHENSIVE_MODE) =>
    \A i \in DOMAIN RawParts :
      RawParts[i]._votes < RequiredVotes(RawParts[i])
        => InsufficientCopy(RawParts[i]) \in Range(uOut.potential_parts)

\* the raw parts of key k, in dict order
PartsOfKey(k) == SelectSeq(RawParts, LAMBDA p : PartKey(p) = k)

\* C3 (amended): in comprehensive mode no key is lost: the key of every
\* cluster that fails the vote threshold is the key of a part in
\* damaged_parts or of a part in potential_parts; when no cluster of the
\* key met the threshold, potential_parts holds exactly one part of that
\* key, the key's first cluster, with reason insufficient_votes.  Further
\* failing clusters of a key are not listed.
C3_EveryFailingKeyIsKept ==
  (uPC = "done" /\ cfg.COMPREHENSIVE_MODE) =>
    \A i \in DOMAIN RawParts :
      LET k == PartKey(RawParts[i])
      IN RawParts[i]._votes < RequiredVotes(RawParts[i]) =>
           /\ k \in KeysOf(uOut.damaged_parts) \cup KeysOf(uOut.potential_parts)
           /\ k \notin KeysOf(uOut.damaged_parts) =>
                /\ Cardinality({j \in DOMAIN uOut.potential_parts :
                                  PartKey(uOut.potential_parts[j]) = k}) = 1
                /\ InsufficientCopy(PartsOfKey(k)[1]) \in Range(uOut.potential_parts)

\* two failing clusters of one key with no confirmed cluster: the first is
\* listed as potential
C3_Witness ==
  /\ uPC = "done" /\ cfg.COMPREHENSIVE_MODE
  /\ \E i, j \in DOMAIN RawParts :
       /\ i < j
       /\ PartKey(RawParts[i]) = PartKey(RawParts[j])
       /\ PartKey(RawParts[i]) \notin KeysOf(uOut.damaged_parts)
       /\ InsufficientCopy(RawParts[i]) \in Range(uOut.potential_parts)

----------------------------------------------------------------------------
(* The persisted superset: _load_superset / _save_superset.  A dict is a   *)
(* sequence of entries in insertion order.                                 *)

RECURSIVE EntryIndexFrom(_, _, _)
EntryIndexFrom(m, key, i) ==
  IF i > Len(m) THEN 0
  ELSE IF m[i].key = key THEN i
  ELSE EntryIndexFrom(m, key, i + 1)

EntryIndex(m, key) == EntryIndexFrom(m, key, 1)

\* m.get(key, {"count": 0, "part": {}})
EntryGet(m, key) ==
  IF EntryIndex(m, key) = 0 THEN [key |-> key, count |-> 0, part |-> EmptyPart]
  ELSE m[EntryIndex(m, key)]

\* m[key] = entry
EntryPut(m, entry) ==
  IF EntryIndex(m, entry.key) = 0 THEN Append(m, entry)
  ELSE [m EXCEPT ![EntryIndex(m, entry.key)] = entry]

\* the file of a fingerprint: whether it exists, what reading it gives
\* ("json": the document _save_superset writes; "unreadable": read_text
\* raises; "malformed": json.loads or a conversion of a field raises) and
\* the document
NoStore == [exists |-> FALSE, kind |-> "json", run_count |-> 0, parts |-> <<>>]

\* item.get("part") or {name, location, category}
ItemPart(item) ==
  IF item.part # EmptyPart THEN item.part
  ELSE [EmptyPart EXCEPT !.name = item.name,
                         !.location = item.location,
                         !.category = item.category]

\* {"count": prev.count + count, "part": _prefer_part(part, prev.part)}
LoadEntry(prev, part, count) ==
  [key |-> prev.key,
   count |-> prev.count + count,
   part |-> _prefer_part(part, prev.part)]

\* one item of the file, already canonicalized, merged under its key
LoadPart(m, part, count) ==
  EntryPut(m, LoadEntry(EntryGet(m, _key_for_part(part)), part, count))

RECURSIVE LoadItems(_, _)
LoadItems(items, m) ==
  IF items = <<>> THEN m
  ELSE LoadItems(Tail(items),
         LoadPart(m, canonicalize_part(ItemPart(Head(items))), Head(items).count))

\* a load that keeps the items of a malformed file that can be read
_load_superset_lenient(st) ==
  IF ~st.exists THEN [map |-> <<>>, run_count |-> 0]
  ELSE IF st.kind = "unreadable" THEN [map |-> <<>>, run_count |-> 0]
  ELSE [map |-> LoadItems(st.parts, <<>>), run_count |-> st.run_count]

\* _load_superset(path): (map, run_count); ({}, 0) when the file is absent
\* and when anything in the body raises (lines 326-348)
_load_superset(st) ==
  IF ~st.exists THEN [map |-> <<>>, run_count |-> 0]
  ELSE IF st.kind # "json" THEN [map |-> <<>>, run_count |-> 0]
  ELSE [map |-> LoadItems(st.parts, <<>>), run_count |-> st.run_count]

\* _save_superset(path, fingerprint, superset_map, run_count): the file written
_save_superset(m, run_count) ==
  [exists |-> TRUE, kind |-> "json",
   run_count |-> run_count,
   parts |-> [i \in 1..Len(m) |->
                [name |-> m[i].key[1], location |-> m[i].key[2],
                 category |-> _norm(m[i].part.category),
                 count |-> m[i].count, part |-> m[i].part]]]

----------------------------------------------------------------------------
(* main: superset accumulation (lines 1274-1294) *)

\* entry["part"] = _prefer_part(part, entry["part"]); entry["count"] += 1
AccumulateEntry(entry, part) ==
  [entry EXCEPT !.part = _prefer_part(part, entry.part),
                !.count = entry.count + 1]

AccumulateOne(m, part) ==
  EntryPut(m, AccumulateEntry(EntryGet(m, _key_for_part(part)), part))

RECURSIVE AccumulateAll(_, _)
AccumulateAll(m, parts) ==
  IF parts = <<>> THEN m
  ELSE AccumulateAll(AccumulateOne(m, Head(parts)), Tail(parts))

\* a sort key without the severity: (-count, name)
EntryBeforeNoSeverity(a, b) ==
  IF a.count # b.count THEN a.count > b.count
  ELSE StrLess(a.key[1], b.key[1])

\* sort key of line 1292: (-count, -severity, name)
EntryBefore(a, b) ==
  IF a.count # b.count THEN a.count > b.count
  ELSE IF SeverityPriority(a.part) # SeverityPriority(b.part)
       THEN SeverityPriority(a.part) > SeverityPriority(b.part)
  ELSE StrLess(a.key[1], b.key[1])

\* stable insertion of entry index x into a sorted sequence of entry indices
RECURSIVE InsertEntry(_, _, _)
InsertEntry(m, sorted, x) ==
  IF sorted = <<>> THEN <<x>>
  ELSE IF EntryBefore(m[x], m[Head(sorted)]) THEN <<x>> \o sorted
  ELSE <<Head(sorted)>> \o InsertEntry(m, Tail(sorted), x)

RECURSIVE SortEntries(_, _)
SortEntries(m, idxs) ==
  IF idxs = <<>> THEN <<>>
  ELSE InsertEntry(m, SortEntries(m, SubSeq(idxs, 1, Len(idxs) - 1)), idxs[Len(idxs)])

\* indices 1..n that satisfy a condition, ascending
RECURSIVE IndicesFrom(_, _, _)
IndicesFrom(i, n, S) ==
  IF i > n THEN <<>>
  ELSE (IF i \in S THEN <<i>> ELSE <<>>) \o IndicesFrom(i + 1, n, S)

\* the entries of the accumulated list, as indices into the map, in the
\* order of the sorted list
Accumulated(m) ==
  SortEntries(m, IndicesFrom(1, Len(m),
    {i \in 1..Len(m) : m[i].count >= Max(1, cfg.PERSIST_MIN_SUPPORT)}))

----------------------------------------------------------------------------
(* main: Phase 2 (lines 1311-1357).  objs is the list of part objects of   *)
(* detected["damaged_parts"]; enriched_raw is the list the oracle returns. *)

\* idx: the enriched parts by key, the preferred one among duplicates
RECURSIVE EnrichedIndex(_, _)
EnrichedIndex(enriched_raw, idx) ==
  IF enriched_raw = <<>> THEN idx
  ELSE LET p == canonicalize_part(Head(enriched_raw))
           k == PartKey(p)
       IN EnrichedIndex(Tail(enriched_raw),
            IF EntryIndex(idx, k) = 0
            THEN Append(idx, [key |-> k, count |-> 0, part |-> p])
            ELSE EntryPut(idx, [key |-> k, count |-> 0,
                                part |-> _prefer_part(p, EntryGet(idx, k).part)]))

\* str(part.get("description", ""))
DescriptionStr(p) == IF p.description # None THEN p.description ELSE EmptyStr

\* lines 1336-1339: the severity is upgraded only if higher
UpgradeSeverity(part, add) ==
  IF SeverityPriority(add) > SeverityPriority(part)
  THEN [part EXCEPT !.severity = add.severity]
  ELSE part

\* lines 1341-1345: the description is replaced only by a longer one
LongerDescription(part, add) ==
  IF Len(DescriptionStr(add)) > Len(DescriptionStr(part))
  THEN [part EXCEPT !.description = DescriptionStr(add)]
  ELSE part

\* lines 1330-1345 for a part that part.update(cp) has made canonical
EnrichCanonical(cp, idx) ==
  IF EntryIndex(idx, PartKey(cp)) = 0 THEN cp
  ELSE LongerDescription(UpgradeSeverity(cp, EntryGet(idx, PartKey(cp)).part),
                         EntryGet(idx, PartKey(cp)).part)

\* the body of the loop over detected["damaged_parts"]
EnrichPart(part, idx) == EnrichCanonical(canonicalize_part(part), idx)

\* the parts of idx whose key no existing part has, in the order of idx
RECURSIVE NewEnriched(_, _)
NewEnriched(idx, existing_keys) ==
  IF idx = <<>> THEN <<>>
  ELSE (IF Head(idx).key \in existing_keys THEN <<>> ELSE <<Head(idx).part>>)
       \o NewEnriched(Tail(idx), existing_keys)

\* lines 1351-1354: the new parts are appended when PHASE2_ALLOW_NEW_PARTS is set
AppendNew(enriched, idx) ==
  IF cfg.PHASE2_ALLOW_NEW_PARTS
  THEN enriched \o NewEnriched(idx, KeysOf(enriched))
  ELSE enriched

EnrichAll(os, idx) == AppendNew([i \in 1..Len(os) |-> EnrichPart(os[i], idx)], idx)

\* the objects after Phase 2: the existing ones enriched in place, then the
\* new ones
Phase2Merge(os, enriched_raw) == EnrichAll(os, EnrichedIndex(enriched_raw, <<>>))

----------------------------------------------------------------------------
(* main: Phase 2.5, verification (lines 1389-1590) *)

\* (pp.get("severity") or "minor").strip().lower()
SevOf(p) == Lower(Strip(IF Truthy(p.severity) THEN p.severity ELSE S_minor))

_sev_thr(p) ==
  IF SevOf(p) = S_severe THEN cfg.VERIFY_CONF_SEVERE
  ELSE IF SevOf(p) = S_moderate THEN cfg.VERIFY_CONF_MODERATE
  ELSE cfg.VERIFY_CONF_MINOR

_consensus_required(p) ==
  IF SevOf(p) = S_severe THEN Max(1, cfg.VERIFY_REQUIRE_PASSES_SEVERE)
  ELSE IF SevOf(p) = S_moderate THEN Max(1, cfg.VERIFY_REQUIRE_PASSES_MODERATE)
  ELSE Max(1, cfg.VERIFY_REQUIRE_PASSES_MINOR)

\* a single temperature completed with the second default one
VerifyTempsPadDefault ==
  LET t == IF cfg.VERIFY_TEMPS # <<>> THEN cfg.VERIFY_TEMPS ELSE <<0, 20>>
  IN IF Len(t) < 2 THEN t \o <<20>> ELSE t

\* temps of verify_one
VerifyTemps ==
  LET t == IF cfg.VERIFY_TEMPS # <<>> THEN cfg.VERIFY_TEMPS ELSE <<0, 20>>
  IN IF Len(t) < 2 THEN t \o t ELSE t

\* what one oracle call of a verification pass comes to: an exception (the
\* call or the parsing of its answer raised) or an answer
PassError == [err |-> TRUE, present |-> FALSE, confidence |-> 0]
PassAnswer(present, confidence) ==
  [err |-> FALSE, present |-> present, confidence |-> confidence]

\* the record a failed pass leaves, with a yes-vote of full confidence
PassRecordFailOpen(answer, temp) ==
  IF answer.err THEN [present |-> TRUE, confidence |-> 100, temp |-> temp]
  ELSE [present |-> answer.present, confidence |-> answer.confidence, temp |-> temp]

\* the try/except of one pass (lines 1458-1479)
PassRecord(answer, temp) ==
  IF answer.err THEN [present |-> FALSE, confidence |-> 0, temp |-> temp]
  ELSE [present |-> answer.present, confidence |-> answer.confidence, temp |-> temp]

RECURSIVE SeqMax(_)
SeqMax(s) == IF s = <<>> THEN 0 ELSE Max(Head(s), SeqMax(Tail(s)))

\* a yes-vote is any answer that says present
CountsAsYesAnyConfidence(r, thr) == r.present

CountsAsYes(r, thr) == r.present /\ r.confidence >= thr

\* verify_one(p) given the answers of its two passes: (kept, best_conf, evidence)
verify_one(p, answers) ==
  LET passes    == [i \in 1..2 |-> PassRecord(answers[i], VerifyTemps[i])]
      thr       == _sev_thr(p)
      votes_yes == Cardinality({i \in 1..2 : CountsAsYes(passes[i], thr)})
      required  == _consensus_required(p)
  IN [ok |-> votes_yes >= required,
      conf |-> SeqMax([i \in 1..2 |-> passes[i].confidence]),
      ev |-> [kind |-> "evidence", passes |-> passes, threshold |-> thr,
              votes_yes |-> votes_yes, consensus_required |-> required]]

\* a verification task: its two answers, or an exception out of verify_one
TaskRaised == [raised |-> TRUE, answers |-> <<>>]
TaskAnswers(a1, a2) == [raised |-> FALSE, answers |-> <<a1, a2>>]

\* fut.result(timeout=45) with its except branch (lines 1505-1508)
FutureResult(p, outcome) ==
  IF outcome.raised THEN [ok |-> FALSE, conf |-> 0, ev |-> EmptyEvidence]
  ELSE verify_one(p, outcome.answers)

\* the body of the as_completed loop for the future of object i:
\* st = [objs, kept, dropped]
CollectResult(st, i, outcome) ==
  LET r == FutureResult(st.objs[i], outcome)
  IN IF r.ok
     THEN [objs |-> [st.objs EXCEPT ![i]._verify = r.ev],
           kept |-> Append(st.kept, i),
           dropped |-> st.dropped]
     ELSE [objs |-> st.objs,
           kept |-> st.kept,
           dropped |-> Append(st.dropped, [obj |-> i, conf |-> r.conf, ev |-> r.ev])]

\* the loop over the futures in a given order of completion
RECURSIVE CollectAll(_, _, _)
CollectAll(st, order, outcomes) ==
  IF order = <<>> THEN st
  ELSE CollectAll(CollectResult(st, Head(order), outcomes[Head(order)]),
                  Tail(order), outcomes)

\* uniq[_k(pp)] = pp for every pp; list(uniq.values())
RECURSIVE UniqLastWins(_, _)
UniqLastWins(parts, uniq) ==
  IF parts = <<>> THEN [i \in 1..Len(uniq) |-> uniq[i].part]
  ELSE UniqLastWins(Tail(parts),
         EntryPut(uniq, [key |-> PartKey(Head(parts)), count |-> 0, part |-> Head(parts)]))

\* the copy without the evidence
DroppedCopyBare(p, ev) ==
  [p EXCEPT !._potential_reason = IF @ = "" THEN "verification_failed" ELSE @]

\* pot = dict(p); pot["_verify"] = ev; pot.setdefault("_potential_reason", ...)
DroppedCopy(p, ev) ==
  [p EXCEPT !._verify = ev,
            !._potential_reason = IF @ = "" THEN "verification_failed" ELSE @]

\* lines 1531-1558: the potential list after verification
MergePotential(os, kp, dr, existing) ==
  LET kept_keys == {PartKey(os[kp[i]]) : i \in DOMAIN kp}
      keepOld   == SelectSeq(existing, LAMBDA pp : PartKey(pp) \notin kept_keys)
      keepDrop  == SelectSeq(dr, LAMBDA d : PartKey(os[d.obj]) \notin kept_keys)
      copies    == [i \in 1..Len(keepDrop) |->
                      DroppedCopy(os[keepDrop[i].obj], keepDrop[i].ev)]
  IN UniqLastWins(keepOld \o copies, <<>>)

----------------------------------------------------------------------------
(* main: final cleanup (lines 1611-1645) and persistence (1672-1687) *)

\* final_parts: the first object of every key, as indices into objs
RECURSIVE FinalParts(_, _, _)
FinalParts(os, d, seen_keys) ==
  IF d = <<>> THEN <<>>
  ELSE IF PartKey(os[Head(d)]) \in seen_keys
       THEN FinalParts(os, Tail(d), seen_keys)
       ELSE <<Head(d)>> \o
            FinalParts(os, Tail(d), seen_keys \cup {PartKey(os[Head(d)])})

\* the potential cleanup without the test against keep_keys
RECURSIVE PotFinalKeepDefinitive(_, _, _)
PotFinalKeepDefinitive(pots, keep_keys, seen_p) ==
  IF pots = <<>> THEN <<>>
  ELSE IF PartKey(Head(pots)) \in seen_p
       THEN PotFinalKeepDefinitive(Tail(pots), keep_keys, seen_p)
       ELSE <<Head(pots)>> \o
            PotFinalKeepDefinitive(Tail(pots), keep_keys,
                                   seen_p \cup {PartKey(Head(pots))})

\* pot_final (lines 1634-1643)
RECURSIVE PotFinal(_, _, _)
PotFinal(pots, keep_keys, seen_p) ==
  IF pots = <<>> THEN <<>>
  ELSE IF PartKey(Head(pots)) \in keep_keys \/ PartKey(Head(pots)) \in seen_p
       THEN PotFinal(Tail(pots), keep_keys, seen_p)
       ELSE <<Head(pots)>> \o
            PotFinal(Tail(pots), keep_keys, seen_p \cup {PartKey(Head(pots))})

\* the mutations made through detected["damaged_parts"] reach the entries of
\* superset_map that hold the same objects (ref[i] is the entry of object
\* i, 0 when the object is in no entry)
WriteBack(m, os, ref) ==
  [e \in 1..Len(m) |->
     IF \E i \in 1..Len(os) : ref[i] = e
     THEN [m[e] EXCEPT !.part = os[CHOOSE i \in 1..Len(os) : ref[i] = e]]
     ELSE m[e]]

\* the loop of lines 1674-1678
RECURSIVE PersistFinal(_, _)
PersistFinal(m, parts) ==
  IF parts = <<>> THEN m
  ELSE LET entry == EntryGet(m, _key_for_part(Head(parts)))
       IN PersistFinal(
            EntryPut(m, [entry EXCEPT !.part = _prefer_part(Head(parts), entry.part)]),
            Tail(parts))

----------------------------------------------------------------------------
(* main, one invocation after another on the same image set.  The oracle   *)
(* answers are drawn from the sets below.                                  *)

MaxInvocations == 2
DetectionTasks == 2

MainConfigs ==
  { SmartConfig,
    [SmartConfig EXCEPT !.ENABLE_VERIFICATION_PASS = FALSE],
    DefaultConfig }

ItemHood == DictItem(MkPart(T_Hood, T_Front, S_minor, T_dent, None, None))
ItemBumper == DictItem(MkPart(T_RearBumper, T_back, T_high, T_dent, None, None))

\* a detection task that has not completed, one that returned None or
\* raised, and one that returned a run
TaskPending == [state |-> "pending", parts |-> <<>>]
TaskFailed == [state |-> "failed", parts |-> <<>>]
TaskRun(parts) == [state |-> "run", parts |-> parts]

DetectionResults ==
  { TaskFailed, TaskRun(<<ItemHood>>), TaskRun(<<ItemHood, ItemBumper>>) }

CompletenessResults == { TaskFailed, TaskRun(<<ItemHood, ItemBumper>>) }

\* the reply of the Phase 2 call: the call or json.loads raised, or the
\* damaged_parts list of the parsed reply
Phase2Raised == [raised |-> TRUE, damaged_parts |-> <<>>]
Phase2Reply(parts) == [raised |-> FALSE, damaged_parts |-> parts]

Phase2Replies ==
  { Phase2Raised, Phase2Reply(<<>>),
    Phase2Reply(<<MkPart(T_Hood, T_Front, S_severe, T_deep_dent, None, None)>>) }

VerifyOutcomes ==
  { TaskRaised,
    TaskAnswers(PassAnswer(TRUE, 90), PassAnswer(TRUE, 90)),
    TaskAnswers(PassError, PassAnswer(TRUE, 90)),
    TaskAnswers(PassAnswer(TRUE, 50), PassAnswer(FALSE, 95)) }

NoOutcome == [raised |-> FALSE, answers |-> <<>>]

MainInit ==
  /\ cfg \in MainConfigs
  /\ store = NoStore
  /\ mPC = "idle" /\ inv = 0
  /\ superset_map = <<>> /\ superset_runs = 0 /\ loaded = <<>>
  /\ results_by_idx = <<>> /\ runs = <<>>
  /\ detected = [damaged_parts |-> <<>>, potential_parts |-> <<>>]
  /\ objs = <<>> /\ objRef = <<>> /\ dmg = <<>> /\ potential = <<>>
  /\ kept = <<>> /\ dropped = <<>> /\ vOutcome = <<>> /\ reports = <<>>
  /\ pNew = EmptyPart /\ pBase = EmptyPart /\ pOut = <<>> /\ pPC = "idle"
  /\ uNRuns = 0 /\ uCnt = 0 /\ clusters_by_key = <<>> /\ uPC = "idle"
  /\ uOut = [damaged_parts |-> <<>>, potential_parts |-> <<>>]
  /\ AuxUnused

\* a new process: the superset is loaded (lines 743-748) and the detection
\* tasks are submitted (lines 1098-1103)
MStart ==
  /\ mPC \in {"idle", "exited"}
  /\ inv < MaxInvocations
  /\ inv' = inv + 1
  /\ LET ld == IF cfg.PERSIST_MAX_UNION THEN _load_superset(store)
               ELSE [map |-> <<>>, run_count |-> 0]
     IN /\ superset_map' = ld.map
        /\ loaded' = ld.map
        /\ superset_runs' = ld.run_count
  /\ results_by_idx' = [i \in 1..DetectionTasks |-> TaskPending]
  /\ runs' = <<>>
  /\ detected' = [damaged_parts |-> <<>>, potential_parts |-> <<>>]
  /\ objs' = <<>> /\ objRef' = <<>> /\ dmg' = <<>> /\ potential' = <<>>
  /\ kept' = <<>> /\ dropped' = <<>> /\ vOutcome' = <<>>
  /\ mPC' = "phase1"
  /\ UNCHANGED <<cfg, store, reports, prefVars, unionVars, auxVars>>

\* a detection future completes, in any order (lines 1105-1124)
MDetectionDone ==
  /\ mPC = "phase1"
  /\ \E i \in 1..DetectionTasks :
       /\ results_by_idx[i] = TaskPending
       /\ \E r \in DetectionResults :
            results_by_idx' = [results_by_idx EXCEPT ![i] = r]
  /\ UNCHANGED <<cfg, store, mPC, inv, superset_map, superset_runs, loaded, runs,
                 detected, objs, objRef, dmg, potential, kept, dropped, vOutcome,
                 reports, prefVars, unionVars, auxVars>>

\* every task contributes a run, a failed one an empty run
RunsOfAll(results) == [i \in 1..Len(results) |-> results[i].parts]

\* runs = [results_by_idx[i] for i in range(...) if i in results_by_idx]
RunsOf(results) ==
  LET ok == SelectSeq(results, LAMBDA r : r.state = "run")
  IN [i \in 1..Len(ok) |-> ok[i].parts]

\* all futures are done: the runs are collected in task order and merged,
\* or the process exits when there is none (lines 1125-1173)
MUnion ==
  /\ mPC = "phase1"
  /\ \A i \in 1..DetectionTasks : results_by_idx[i] # TaskPending
  /\ runs' = RunsOf(results_by_idx)
  /\ IF runs' = <<>>
     THEN /\ mPC' = "exited"
          /\ UNCHANGED detected
     ELSE /\ mPC' = "completeness"
          /\ detected' = union_parts(runs')
  /\ UNCHANGED <<cfg, store, inv, superset_map, superset_runs, loaded,
                 results_by_idx, objs, objRef, dmg, potential, kept, dropped,
                 vOutcome, reports, prefVars, unionVars, auxVars>>

\* the completeness pass (lines 1210-1272): one call per detection
\* temperature, the list being [0.0]; a reply is merged with the runs
MCompleteness ==
  /\ mPC = "completeness"
  /\ IF cfg.ENABLE_COMPLETENESS_PASS
     THEN \E r \in CompletenessResults :
            detected' = IF r.state = "run"
                        THEN union_parts(Append(runs, r.parts))
                        ELSE detected
     ELSE UNCHANGED detected
  /\ mPC' = "accumulate"
  /\ UNCHANGED <<cfg, store, inv, superset_map, superset_runs, loaded,
                 results_by_idx, runs, objs, objRef, dmg, potential, kept, dropped,
                 vOutcome, reports, prefVars, unionVars, auxVars>>

\* lines 1274-1294: the confirmed parts are counted into the superset and
\* the damaged list becomes the accumulated list
MAccumulate ==
  /\ mPC = "accumulate"
  /\ IF cfg.PERSIST_MAX_UNION
     THEN LET m   == AccumulateAll(superset_map, detected.damaged_parts)
              acc == Accumulated(m)
          IN /\ superset_map' = m
             /\ objs' = [i \in 1..Len(acc) |-> m[acc[i]].part]
             /\ objRef' = acc
     ELSE /\ objs' = detected.damaged_parts
          /\ objRef' = [i \in 1..Len(detected.damaged_parts) |-> 0]
          /\ UNCHANGED superset_map
  /\ potential' = detected.potential_parts
  /\ mPC' = "phase2"
  /\ UNCHANGED <<cfg, store, inv, superset_runs, loaded, results_by_idx, runs,
                 detected, dmg, kept, dropped, vOutcome, reports, prefVars, unionVars, auxVars>>

\* whether the verification block runs (line 1390)
VerificationRuns(parts) == cfg.ENABLE_VERIFICATION_PASS /\ parts # <<>>

\* Phase 2 (lines 1303-1357): an exception of the call or of json.loads
\* ends the process; otherwise the reply is merged and the verification
\* futures are submitted
MPhase2 ==
  /\ mPC = "phase2"
  /\ \E reply \in Phase2Replies :
       IF reply.raised
       THEN /\ mPC' = "exited"
            /\ UNCHANGED <<objs, objRef, dmg, vOutcome>>
       ELSE /\ objs' = Phase2Merge(objs, reply.damaged_parts)
            /\ objRef' = [i \in 1..Len(objs') |->
                            IF i <= Len(objRef) THEN objRef[i] ELSE 0]
            /\ dmg' = [i \in 1..Len(objs') |-> i]
            /\ vOutcome' = [i \in 1..Len(objs') |-> NoOutcome]
            /\ mPC' = IF VerificationRuns(objs') THEN "verify" ELSE "phase3"
  /\ UNCHANGED <<cfg, store, inv, superset_map, superset_runs, loaded,
                 results_by_idx, runs, detected, potential, kept, dropped, reports,
                 prefVars, unionVars, auxVars>>

\* a verification future completes, in any order, and the loop body of
\* lines 1503-1524 runs for it
MVerifyDone ==
  /\ mPC = "verify"
  /\ \E i \in 1..Len(objs) :
       /\ vOutcome[i] = NoOutcome
       /\ \E outcome \in VerifyOutcomes :
            LET st == CollectResult([objs |-> objs, kept |-> kept, dropped |-> dropped],
                                    i, outcome)
            IN /\ vOutcome' = [vOutcome EXCEPT ![i] = outcome]
               /\ objs' = st.objs
               /\ kept' = st.kept
               /\ dropped' = st.dropped
  /\ UNCHANGED <<cfg, store, mPC, inv, superset_map, superset_runs, loaded,
                 results_by_idx, runs, detected, objRef, dmg, potential, reports,
                 prefVars, unionVars, auxVars>>

\* all futures are done (lines 1529-1558)
MVerifyMerge ==
  /\ mPC = "verify"
  /\ \A i \in 1..Len(objs) : vOutcome[i] # NoOutcome
  /\ dmg' = kept
  /\ potential' = IF cfg.COMPREHENSIVE_MODE
                  THEN MergePotential(objs, kept, dropped, potential)
                  ELSE potential
  /\ mPC' = "phase3"
  /\ UNCHANGED <<cfg, store, inv, superset_map, superset_runs, loaded,
                 results_by_idx, runs, detected, objs, objRef, kept, dropped,
                 vOutcome, reports, prefVars, unionVars, auxVars>>

\* the report of the final cleanup (lines 1611-1645)
FinalReport(os, d, pot) ==
  LET final == FinalParts(os, d, {})
      parts == [i \in 1..Len(final) |-> os[final[i]]]
  IN [damaged_parts |-> parts,
      potential_parts |-> IF cfg.COMPREHENSIVE_MODE
                          THEN PotFinal(pot, KeysOf(parts), {})
                          ELSE pot]

\* Phases 3 and 4 (lines 1592-1609), then the final cleanup, the save of
\* the superset and the report (lines 1611-1728); an exception of either
\* call or of json.loads ends the process before anything is written
MFinish ==
  /\ mPC = "phase3"
  /\ \E raised \in BOOLEAN :
       IF raised
       THEN /\ mPC' = "exited"
            /\ UNCHANGED <<store, superset_map, reports>>
       ELSE LET rep == FinalReport(objs, dmg, potential)
                m   == PersistFinal(WriteBack(superset_map, objs, objRef),
                                    rep.damaged_parts)
            IN /\ IF cfg.PERSIST_MAX_UNION
                  THEN /\ superset_map' = m
                       /\ store' = _save_superset(m, superset_runs + 1)
                  ELSE UNCHANGED <<store, superset_map>>
               /\ reports' = Append(reports, rep)
               /\ mPC' = "idle"
  /\ UNCHANGED <<cfg, inv, superset_runs, loaded, results_by_idx, runs, detected,
                 objs, objRef, dmg, potential, kept, dropped, vOutcome,
                 prefVars, unionVars, auxVars>>

MainNext ==
  \/ MStart
  \/ MDetectionDone
  \/ MUnion
  \/ MCompleteness
  \/ MAccumulate
  \/ MPhase2
  \/ MVerifyDone
  \/ MVerifyMerge
  \/ MFinish

SpecMain == MainInit /\ [][MainNext]_vars

----------------------------------------------------------------------------
(* Properties of main *)

\* the last invocation started has written its report
Finished == mPC = "idle" /\ inv > 0

LastReport == reports[Len(reports)]

\* the verification block ran in the current invocation and is over
Verified == cfg.ENABLE_VERIFICATION_PASS /\ mPC \in {"phase3", "idle"} /\ objs # <<>>

\* the answers of the oracle for object i that say present with a confidence
\* of at least thr
YesAnswers(i, thr) ==
  {j \in 1..2 : /\ ~vOutcome[i].answers[j].err
                /\ vOutcome[i].answers[j].present
                /\ vOutcome[i].answers[j].confidence >= thr}

ConfidenceThreshold(p) ==
  IF p.severity = S_severe THEN cfg.VERIFY_CONF_SEVERE
  ELSE IF p.severity = S_moderate THEN cfg.VERIFY_CONF_MODERATE
  ELSE cfg.VERIFY_CONF_MINOR

ConsensusRequired(p) ==
  IF p.severity = S_severe THEN cfg.VERIFY_REQUIRE_PASSES_SEVERE
  ELSE IF p.severity = S_moderate THEN cfg.VERIFY_REQUIRE_PASSES_MODERATE
  ELSE cfg.VERIFY_REQUIRE_PASSES_MINOR

\* object i got the yes-votes its severity requires
EnoughYesVotes(i) ==
  /\ ~vOutcome[i].raised
  /\ Cardinality(YesAnswers(i, ConfidenceThreshold(objs[i]))) >= ConsensusRequired(objs[i])

LoadedCount(k) == EntryGet(loaded, k).count

\* C6: at the end of an invocation, a key whose persisted count is higher than
\* the count loaded is the key of a part confirmed by the vote filter and kept
\* by the verification of this invocation.
C6_CountOnlyForVerified ==
  (Finished /\ cfg.PERSIST_MAX_UNION /\ Verified) =>
    \A e \in 1..Len(store.parts) :
      store.parts[e].count > LoadedCount(<<store.parts[e].name, store.parts[e].location>>) =>
        /\ <<store.parts[e].name, store.parts[e].location>> \in KeysOf(detected.damaged_parts)
        /\ \E i \in 1..Len(kept) :
             PartKey(objs[kept[i]]) = <<store.parts[e].name, store.parts[e].location>>

\* the report main writes when the verification futures complete in the
\* order of their submission
ReportInSubmissionOrder ==
  LET st == CollectAll([objs |-> objs, kept |-> <<>>, dropped |-> <<>>],
                       [i \in 1..Len(objs) |-> i], vOutcome)
  IN FinalReport(st.objs, st.kept,
                 IF cfg.COMPREHENSIVE_MODE
                 THEN MergePotential(st.objs, st.kept, st.dropped, detected.potential_parts)
                 ELSE detected.potential_parts)

\* C7: the lists of the written report do not depend on the order in which
\* the futures completed: they are the lists of the submission order.
C7_OrderIndependent ==
  (Finished /\ Verified) => LastReport = ReportInSubmissionOrder

\* C8: in every written report no key is in both damaged_parts and
\* potential_parts.
C8_KeyDisjoint ==
  \A n \in 1..Len(reports) :
    KeysOf(reports[n].damaged_parts) \cap KeysOf(reports[n].potential_parts) = {}

\* a report written when the potential list handed to the final cleanup held
\* a key of the final confirmed list
C8_Witness ==
  /\ Finished
  /\ KeysOf(potential) \cap KeysOf(LastReport.damaged_parts) # {}

\* the evidence recorded for object i once its future has completed
EvidenceOf(i) ==
  IF \E k \in 1..Len(kept) : kept[k] = i THEN objs[i]._verify
  ELSE (CHOOSE d \in Range(dropped) : d.obj = i).ev

\* C10: a pass that raised is recorded as present = false with confidence 0
\* and is no yes-vote; a part whose verification task raised is dropped with
\* empty evidence and is not in the damaged_parts of the report.
C10_VerificationFailsClosed ==
  \A i \in 1..Len(vOutcome) :
    (vOutcome[i] # NoOutcome) =>
      /\ vOutcome[i].raised =>
           /\ \A k \in 1..Len(kept) : kept[k] # i
           /\ \E k \in 1..Len(dropped) :
                dropped[k].obj = i /\ dropped[k].ev = EmptyEvidence /\ dropped[k].conf = 0
           /\ Finished =>
                \A k \in 1..Len(LastReport.damaged_parts) :
                  PartKey(LastReport.damaged_parts[k]) # PartKey(objs[i])
      /\ ~vOutcome[i].raised =>
           /\ \A j \in 1..2 :
                vOutcome[i].answers[j].err =>
                  /\ ~EvidenceOf(i).passes[j].present
                  /\ EvidenceOf(i).passes[j].confidence = 0
           /\ EvidenceOf(i).votes_yes =
                Cardinality(YesAnswers(i, EvidenceOf(i).threshold))
           /\ (\E k \in 1..Len(kept) : kept[k] = i) => EnoughYesVotes(i)

\* a report written after one task raised and a pass of another raised
C10_Witness ==
  /\ Finished
  /\ \E i \in 1..Len(vOutcome) : vOutcome[i].raised
  /\ \E i \in 1..Len(vOutcome) :
       ~vOutcome[i].raised /\ vOutcome[i] # NoOutcome /\ vOutcome[i].answers[1].err

----------------------------------------------------------------------------
(* canonicalize_part on its own: the function applied to a record and then *)
(* to its own result, as _load_superset, union_parts and Phase 2 apply it  *)
(* to records that were canonicalized before.                              *)

\* _prefer_part, union_parts and main are not running
CoreUnusedExceptCfg ==
  /\ pNew = EmptyPart /\ pBase = EmptyPart /\ pOut = <<>> /\ pPC = "idle"
  /\ uNRuns = 0 /\ uCnt = 0 /\ clusters_by_key = <<>> /\ uPC = "idle"
  /\ uOut = [damaged_parts |-> <<>>, potential_parts |-> <<>>]
  /\ MainUnused

CoreUnused == cfg = DefaultConfig /\ CoreUnusedExceptCfg

T_grill == <<103, 114, 105, 108, 108>>  \* "grill"
T_LicencePlate == <<76, 105, 99, 101, 110, 99, 101, 45, 80, 108, 97, 116, 101>>  \* "Licence-Plate"
T_NumberPlate == <<78, 117, 109, 98, 101, 114, 32, 80, 108, 97, 116, 101>>  \* "Number Plate"
T_DriverSide == <<68, 114, 105, 118, 101, 114, 32, 115, 105, 100, 101>>  \* "Driver side"
T_Left == <<76, 101, 102, 116>>  \* "Left"
T_rear == <<114, 101, 97, 114>>  \* "rear"
T_RearEnd == <<82, 101, 97, 114, 32, 69, 110, 100>>  \* "Rear End"
T_Body == <<66, 111, 100, 121>>  \* "Body"
T_Severe == <<83, 101, 118, 101, 114, 101>>  \* "Severe"

CanonNames == {T_Bonnet, T_Hood, T_grill, T_FrontGrill, T_RearBumper, T_LicencePlate, T_NumberPlate}
CanonLocations == {None, T_DriverSide, T_Left, T_back, T_rear, T_RearEnd, T_Front}
CanonSeverities == {None, T_high, T_Severe, S_minor}

CanonInputs ==
  { [MkPart(n, l, s, T_dent, None, None) EXCEPT !.category = c] :
      n \in CanonNames, l \in CanonLocations, s \in CanonSeverities,
      c \in {None, T_Body} }

CanonInit ==
  /\ cIn \in CanonInputs
  /\ cOnce = <<>> /\ cTwice = <<>> /\ cPC = "start"
  /\ CoreUnused
  /\ CallsUnused /\ ProcsUnused /\ PureUnused

\* canonicalize_part(x)
CanonFirst ==
  /\ cPC = "start"
  /\ cOnce' = canonicalize_part(cIn)
  /\ cPC' = "once"
  /\ UNCHANGED <<cfg, cIn, cTwice, prefVars, unionVars, mainVars, callVars, procs, pureVars>>

\* canonicalize_part(canonicalize_part(x))
CanonSecond ==
  /\ cPC = "once"
  /\ cTwice' = canonicalize_part(cOnce)
  /\ cPC' = "twice"
  /\ UNCHANGED <<cfg, cIn, cOnce, prefVars, unionVars, mainVars, callVars, procs, pureVars>>

CanonNext == CanonFirst \/ CanonSecond

SpecCanon == CanonInit /\ [][CanonNext]_vars

SameCanonFields(a, b) ==
  /\ a.name = b.name /\ a.location = b.location
  /\ a.category = b.category /\ a.severity = b.severity

\* C13: canonicalize_part(canonicalize_part(x)) equals canonicalize_part(x)
\* in name, location, category and severity, for every record x
C13_Idempotent == cPC = "twice" => SameCanonFields(cTwice, cOnce)

\* the second application changes the name of a record named "Licence-Plate"
C13_PlateRenamed ==
  /\ cPC = "twice"
  /\ cIn.name = T_LicencePlate
  /\ cTwice.name # cOnce.name

\* the synonym variants the statement names are fixed points
C13_SynonymsStable ==
  (cPC = "twice" /\ cIn.name \in {T_Bonnet, T_Hood, T_grill, T_FrontGrill, T_RearBumper})
    => SameCanonFields(cTwice, cOnce)
----------------------------------------------------------------------------
(* union_parts: the clustering boundary and the effect of further runs     *)

\* the unit cells a box [x1, y1, x2, y2] covers
Cells(b) == {<<x, y>> : x \in b[1]..(b[3] - 1), y \in b[2]..(b[4] - 1)}

UnionBoxes == {BoxA, BoxB, BoxC}

\* cells in the intersection and in the union of two boxes
BoxOverlap ==
  [a \in UnionBoxes |-> [b \in UnionBoxes |->
     [inter |-> Cardinality(Cells(a) \cap Cells(b)),
      union |-> Cardinality(Cells(a) \cup Cells(b))]]]

\* intersection over union is at least pct hundredths
OverlapAtLeast(a, b, pct) ==
  BoxOverlap[a][b].inter * 100 >= pct * BoxOverlap[a][b].union

\* the clusters of key k, the empty list when the key is absent
ClustersOf(cbk, k) == IF KeyIndex(cbk, k) = 0 THEN <<>> ELSE cbk[KeyIndex(cbk, k)].clusters

\* the clusters founded with a box whose overlap with box b reaches the
\* threshold
Overlapping(cls, b) ==
  {i \in DOMAIN cls : cls[i].bbox_px # None
                      /\ OverlapAtLeast(cls[i].bbox_px, b, cfg.CLUSTER_IOU_THRESH)}

\* the candidate with a box was absorbed by the earliest cluster of its key
\* whose founding box overlaps it by the threshold or more, and founded a
\* new cluster when there is none
BoundaryRule(old, new, cand, rid) ==
  IF Overlapping(old, cand.bbox_px) = {}
  THEN /\ Len(new) = Len(old) + 1
       /\ SubSeq(new, 1, Len(old)) = old
       /\ new[Len(new)].bbox_px = cand.bbox_px
       /\ new[Len(new)].rep = cand
       /\ new[Len(new)].hist = <<rid>>
  ELSE /\ Len(new) = Len(old)
       /\ \A i \in DOMAIN old :
            IF i \in Overlapping(old, cand.bbox_px)
               /\ \A j \in Overlapping(old, cand.bbox_px) : i <= j
            THEN /\ new[i].hist = Append(old[i].hist, rid)
                 /\ new[i].runs = old[i].runs \cup {rid}
                 /\ new[i].bbox_px = old[i].bbox_px
            ELSE new[i] = old[i]

\* C14: a candidate with a bounding box is merged into the cluster of its
\* key founded by an earlier candidate with a box when the IoU of the two
\* boxes is CLUSTER_IOU_THRESH or more (equality included), and founds a
\* separate cluster when the IoU with every such cluster is below the
\* threshold; with several clusters at or above it the earliest absorbs.
C14_IouBoundary ==
  [][(uPC = "loop" /\ uCnt' = uCnt + 1) =>
       \A item \in UnionItems :
         clusters_by_key' = ProcessCands(clusters_by_key, uNRuns - 1, SanitizedItem[item])
           => \A c \in DOMAIN SanitizedItem[item] :
                Truthy(SanitizedItem[item][c].bbox_px) =>
                  BoundaryRule(ClustersOf(clusters_by_key, PartKey(SanitizedItem[item][c])),
                               ClustersOf(clusters_by_key', PartKey(SanitizedItem[item][c])),
                               SanitizedItem[item][c], uNRuns - 1)]_vars

\* threshold 0.40: a cluster founded with BoxA absorbed the candidate of a
\* later run carrying BoxB (IoU exactly 0.40), and the candidate of a later
\* run carrying BoxC (IoU 0) founded a second cluster of the key
C14_Witness ==
  /\ cfg.CLUSTER_IOU_THRESH = 40
  /\ \E k \in DOMAIN clusters_by_key :
       /\ Len(clusters_by_key[k].clusters) = 2
       /\ clusters_by_key[k].clusters[1].bbox_px = BoxA
       /\ clusters_by_key[k].clusters[1].rep.bbox_px = BoxB
       /\ clusters_by_key[k].clusters[1].hist = <<0, 1>>
       /\ clusters_by_key[k].clusters[2].bbox_px = BoxC
       /\ clusters_by_key[k].clusters[2].hist = <<2>>

\* threshold 0.45: the same two boxes (IoU 0.40) are two clusters
C14_BelowThreshold ==
  /\ cfg.CLUSTER_IOU_THRESH = 45
  /\ \E k \in DOMAIN clusters_by_key :
       /\ Len(clusters_by_key[k].clusters) = 2
       /\ clusters_by_key[k].clusters[1].bbox_px = BoxA
       /\ clusters_by_key[k].clusters[1].hist = <<0>>
       /\ clusters_by_key[k].clusters[2].bbox_px = BoxB
       /\ clusters_by_key[k].clusters[2].hist = <<1>>

\* the keys union_parts confirms for the candidates clustered so far
ConfirmedKeys(cbk) == KeysOf(UnionResult(cbk).damaged_parts)

\* C15: a further run never removes a confirmed key: every key confirmed
\* by union_parts over the runs read so far is still confirmed by
\* union_parts over the same runs followed by one more run.
C15_CompletenessKeepsKeys ==
  [][(uPC = "loop" /\ uNRuns >= 2 /\ uCnt = 0 /\ uCnt' = 1) =>
       ConfirmedKeys(clusters_by_key) \subseteq ConfirmedKeys(clusters_by_key')]_vars

\* under the module's default thresholds and under the smart settings of
\* main.py the keys are kept
C15_KeptUnderShippedSettings ==
  [][(uPC = "loop" /\ uNRuns >= 2 /\ uCnt = 0 /\ uCnt' = 1
      /\ cfg \in {DefaultConfig, SmartConfig}) =>
       ConfirmedKeys(clusters_by_key) \subseteq ConfirmedKeys(clusters_by_key')]_vars
----------------------------------------------------------------------------
(* The detection stage of main *)

\* the detection tasks that returned a run
Succeeded(results) == {i \in DOMAIN results : results[i].state = "run"}

\* rs lists the runs of the succeeded tasks, one each, in task order
RunsOfSucceeded(rs, results) ==
  /\ Len(rs) = Cardinality(Succeeded(results))
  /\ \E f \in [DOMAIN rs -> Succeeded(results)] :
       /\ \A a, b \in DOMAIN rs : a < b => f[a] < f[b]
       /\ \A a \in DOMAIN rs : rs[a] = results[f[a]].parts

\* C16: a detection task that fails contributes no run and does not stop
\* the other tasks: every task gets its result, the stage ends when all
\* have one, consolidation is union_parts over the runs of the tasks that
\* succeeded, and the process exits at this stage exactly when no task
\* succeeded.
C16_FailureIsolation ==
  [][mPC = "phase1" =>
       /\ (\E i \in DOMAIN results_by_idx : results_by_idx[i] = TaskPending)
            => /\ mPC' = "phase1"
               /\ \A i \in DOMAIN results_by_idx :
                    results_by_idx[i] # TaskPending => results_by_idx'[i] = results_by_idx[i]
       /\ mPC' # "phase1" =>
            /\ RunsOfSucceeded(runs', results_by_idx)
            /\ (mPC' = "exited") <=> (Succeeded(results_by_idx) = {})
            /\ mPC' # "exited" =>
                 /\ mPC' = "completeness"
                 /\ detected' = union_parts(runs')]_vars

\* the first task failed, the second returned a run afterwards, and the
\* stage went on with that one run
C16_Witness ==
  /\ mPC = "completeness"
  /\ results_by_idx[1] = TaskFailed
  /\ results_by_idx[2].state = "run"
  /\ runs = <<results_by_idx[2].parts>>
  /\ detected.damaged_parts # <<>>

\* all tasks failed and the process exited
C16_AllFailed ==
  /\ mPC = "exited"
  /\ \A i \in DOMAIN results_by_idx : results_by_idx[i] = TaskFailed
----------------------------------------------------------------------------
(* The verification stage of main on its own, from line 1389 on, entered   *)
(* with the damaged list that lines 1173-1357 make of the detection runs   *)
(* below when Phase 2 returns no part.                                     *)

VerifyConfigs == {SmartConfig, [SmartConfig EXCEPT !.PERSIST_MAX_UNION = FALSE]}

ItemPlateA == DictItem(MkPart(T_LicencePlate, T_Front, S_moderate, T_dent, None, None))
ItemPlateB == DictItem(MkPart(T_NumberPlate, T_Front, S_moderate, T_deep_dent, None, None))
ItemHoodA == DictItem(MkPart(T_Hood, T_Front, S_moderate, T_dent, BoxA, None))
ItemHoodC == DictItem(MkPart(T_Hood, T_Front, S_moderate, T_deep_dent, BoxC, None))

VerifyRunLists ==
  { << <<ItemPlateA, ItemPlateB>> >>,
    << <<ItemHoodA, ItemHoodC>> >>,
    << <<ItemHood, ItemBumper>> >>,
    << <<ItemHood, ItemBumper>>, <<ItemBumper>> >> }

\* the stage entered under one of the given configurations
VerifyInitFor(configs) ==
  /\ cfg \in configs
  /\ store = NoStore
  /\ mPC = "verify" /\ inv = 1
  /\ superset_runs = 0 /\ loaded = <<>>
  /\ runs \in VerifyRunLists
  /\ results_by_idx = [i \in 1..Len(runs) |-> TaskRun(runs[i])]
  /\ detected = union_parts(runs)
  /\ superset_map = IF cfg.PERSIST_MAX_UNION
                    THEN AccumulateAll(<<>>, detected.damaged_parts)
                    ELSE <<>>
  /\ objRef = IF cfg.PERSIST_MAX_UNION
              THEN Accumulated(superset_map)
              ELSE [i \in 1..Len(detected.damaged_parts) |-> 0]
  /\ objs = Phase2Merge(IF cfg.PERSIST_MAX_UNION
                        THEN [i \in 1..Len(objRef) |-> superset_map[objRef[i]].part]
                        ELSE detected.damaged_parts, <<>>)
  /\ dmg = [i \in 1..Len(objs) |-> i]
  /\ vOutcome = [i \in 1..Len(objs) |-> NoOutcome]
  /\ potential = detected.potential_parts
  /\ kept = <<>> /\ dropped = <<>> /\ reports = <<>>
  /\ pNew = EmptyPart /\ pBase = EmptyPart /\ pOut = <<>> /\ pPC = "idle"
  /\ uNRuns = 0 /\ uCnt = 0 /\ clusters_by_key = <<>> /\ uPC = "idle"
  /\ uOut = [damaged_parts |-> <<>>, potential_parts |-> <<>>]
  /\ AuxUnused

VerifyInit == VerifyInitFor(VerifyConfigs)

VerifyNext == MVerifyDone \/ MVerifyMerge \/ MFinish

SpecVerify == VerifyInit /\ [][VerifyNext]_vars

\* the passes the oracle answered for object i, as the evidence lists them
PassesRun(i) ==
  [j \in 1..Len(vOutcome[i].answers) |->
     [present |-> ~vOutcome[i].answers[j].err /\ vOutcome[i].answers[j].present,
      confidence |-> IF vOutcome[i].answers[j].err THEN 0
                     ELSE vOutcome[i].answers[j].confidence,
      temp |-> cfg.VERIFY_TEMPS[j]]]

\* pp is object i demoted: same part, reason verification_failed, and the
\* evidence lists every pass run for it
Demoted(pp, i) ==
  /\ [pp EXCEPT !._verify = NoEvidence, !._potential_reason = ""] =
       [objs[i] EXCEPT !._verify = NoEvidence, !._potential_reason = ""]
  /\ pp._potential_reason = "verification_failed"
  /\ pp._verify.kind # "absent"
  /\ pp._verify.passes = PassesRun(i)

\* the objects that failed verification, in the order they were dropped
Failed == [k \in 1..Len(dropped) |-> dropped[k].obj]

\* a report was written in comprehensive mode after verification
Reported == mPC = "idle" /\ reports # <<>> /\ cfg.COMPREHENSIVE_MODE /\ vOutcome # <<>>

\* C11 (as stated): in comprehensive mode every part that fails
\* verification appears in the final potential_parts with reason
\* verification_failed and its evidence, which lists every pass run for it.
C11_EveryFailedPartIsDemoted ==
  Reported =>
    \A k \in 1..Len(Failed) :
      \E n \in 1..Len(LastReport.potential_parts) :
        Demoted(LastReport.potential_parts[n], Failed[k])

\* the last dropped object among those with the key of object i
LastFailedOfKey(i) ==
  Failed[CHOOSE k \in 1..Len(Failed) :
           /\ PartKey(objs[Failed[k]]) = PartKey(objs[i])
           /\ \A l \in (k + 1)..Len(Failed) : PartKey(objs[Failed[l]]) # PartKey(objs[i])]

\* C11 (amended): in comprehensive mode no key that fails verification is
\* lost: for every part that fails verification, either a part of its key
\* was kept and is in damaged_parts, or the final potential_parts holds
\* exactly one part of that key, which is the last-dropped part of the key
\* with reason verification_failed and its evidence, listing every pass
\* run for it.
C11_EveryFailedKeyIsDemoted ==
  Reported =>
    \A k \in 1..Len(Failed) :
      IF \E j \in 1..Len(kept) : PartKey(objs[kept[j]]) = PartKey(objs[Failed[k]])
      THEN /\ PartKey(objs[Failed[k]]) \in KeysOf(LastReport.damaged_parts)
           /\ PartKey(objs[Failed[k]]) \notin KeysOf(LastReport.potential_parts)
      ELSE /\ Cardinality({n \in 1..Len(LastReport.potential_parts) :
                             PartKey(LastReport.potential_parts[n]) = PartKey(objs[Failed[k]])}) = 1
           /\ \E n \in 1..Len(LastReport.potential_parts) :
                Demoted(LastReport.potential_parts[n], LastFailedOfKey(Failed[k]))

\* two parts of one key failed verification with both passes answered, and
\* the report lists the one dropped last as potential
C11_Witness ==
  /\ Reported
  /\ \E a, b \in 1..Len(Failed) :
       /\ a < b
       /\ PartKey(objs[Failed[a]]) = PartKey(objs[Failed[b]])
       /\ ~vOutcome[Failed[b]].raised
       /\ \E n \in 1..Len(LastReport.potential_parts) :
            Demoted(LastReport.potential_parts[n], Failed[b])
----------------------------------------------------------------------------
(* Oracle calls: call_openai_vision / call_openai_text run by the threads  *)
(* of a pool.  Every call holds the module's semaphore from before its     *)
(* first attempt until it returns or raises (lines 131-148, 152-169).      *)

PoolThreads == 3
MaxCallsPerThread == 2
MaxRetriesSetting == 3

CallConfigs ==
  { [DefaultConfig EXCEPT !.OPENAI_MAX_RETRIES = r, !.OPENAI_CONCURRENCY = c] :
      r \in 0..MaxRetriesSetting, c \in 1..2 }

\* a thread between calls
NoCall == [pc |-> "idle", attempt |-> 0, log |-> <<>>, result |-> "none", err |-> -1, made |-> 0]

CallsInit ==
  /\ cfg \in CallConfigs
  /\ _openai_sem = cfg.OPENAI_CONCURRENCY
  /\ calls = [t \in 1..PoolThreads |-> NoCall]
  /\ CoreUnusedExceptCfg
  /\ CanonUnused /\ ProcsUnused /\ PureUnused

\* the retry loop goes on to another attempt after the attempt that failed
MayRetryAfterLast(attempt) == attempt < cfg.OPENAI_MAX_RETRIES

\* if attempt < OPENAI_MAX_RETRIES - 1
MayRetry(attempt) == attempt < cfg.OPENAI_MAX_RETRIES - 1

\* the semaphore is not counted down
AcquireFree(value) == value

\* Semaphore.acquire on a positive counter
Acquire(value) == value - 1

\* the permit is given back only when the call returns normally
ReleaseOnReturn(value, result) == IF result = "raised" THEN value ELSE value + 1

\* leaving the with block, by return, by raise or at its end, releases the
\* semaphore
ReleaseOnExit(value, result) == value + 1

\* OPENAI_BACKOFF_BASE * (2 ** attempt) + random.uniform(0, 0.25): the
\* bounds of the sleep
Backoff(attempt) ==
  [lo |-> cfg.OPENAI_BACKOFF_BASE * (2 ^ attempt),
   hi |-> cfg.OPENAI_BACKOFF_BASE * (2 ^ attempt) + 25]

\* a task of the pool calls the oracle and reaches "with _openai_sem"
CallEnter(t) ==
  /\ calls[t].pc \in {"idle", "done"}
  /\ calls[t].made < MaxCallsPerThread
  /\ calls' = [calls EXCEPT ![t] = [NoCall EXCEPT !.pc = "waiting", !.made = calls[t].made + 1]]
  /\ UNCHANGED <<cfg, _openai_sem, prefVars, unionVars, mainVars, canonVars, procs, pureVars>>

\* the semaphore is acquired and the loop is entered; range(0) is empty
CallAcquire(t) ==
  /\ calls[t].pc = "waiting"
  /\ _openai_sem > 0
  /\ _openai_sem' = Acquire(_openai_sem)
  /\ calls' = [calls EXCEPT ![t].pc = IF cfg.OPENAI_MAX_RETRIES > 0 THEN "request" ELSE "fallthrough"]
  /\ UNCHANGED <<cfg, prefVars, unionVars, mainVars, canonVars, procs, pureVars>>

\* one attempt: the request returns, or raises; after a failure the thread
\* sleeps or, on the last attempt, raises last_err; leaving the with block
\* releases the semaphore
CallAttempt(t) ==
  /\ calls[t].pc = "request"
  /\ \E ok \in BOOLEAN :
       IF ok
       THEN /\ calls' = [calls EXCEPT ![t].pc = "done", ![t].result = "returned",
                                      ![t].log = Append(@, [ev |-> "ok", attempt |-> calls[t].attempt])]
            /\ _openai_sem' = ReleaseOnExit(_openai_sem, "returned")
       ELSE IF MayRetry(calls[t].attempt)
       THEN /\ calls' = [calls EXCEPT ![t].pc = "sleeping", ![t].err = calls[t].attempt,
                                      ![t].log = Append(@, [ev |-> "failed", attempt |-> calls[t].attempt])]
            /\ UNCHANGED _openai_sem
       ELSE /\ calls' = [calls EXCEPT ![t].pc = "done", ![t].result = "raised",
                                      ![t].err = calls[t].attempt,
                                      ![t].log = Append(@, [ev |-> "failed", attempt |-> calls[t].attempt])]
            /\ _openai_sem' = ReleaseOnExit(_openai_sem, "raised")
  /\ UNCHANGED <<cfg, prefVars, unionVars, mainVars, canonVars, procs, pureVars>>

\* time.sleep(sleep_s) is over: the next attempt
CallWake(t) ==
  /\ calls[t].pc = "sleeping"
  /\ calls' = [calls EXCEPT ![t].pc = "request", ![t].attempt = @ + 1,
                            ![t].log = Append(@, [ev |-> "sleep", attempt |-> calls[t].attempt,
                                                  sleep_s |-> Backoff(calls[t].attempt)])]
  /\ UNCHANGED <<cfg, _openai_sem, prefVars, unionVars, mainVars, canonVars, procs, pureVars>>

\* the loop made no attempt: the function returns None
CallFallThrough(t) ==
  /\ calls[t].pc = "fallthrough"
  /\ calls' = [calls EXCEPT ![t].pc = "done", ![t].result = "none"]
  /\ _openai_sem' = ReleaseOnExit(_openai_sem, "none")
  /\ UNCHANGED <<cfg, prefVars, unionVars, mainVars, canonVars, procs, pureVars>>

CallsNext ==
  \E t \in 1..PoolThreads :
    \/ CallEnter(t)
    \/ CallAcquire(t)
    \/ CallAttempt(t)
    \/ CallWake(t)
    \/ CallFallThrough(t)

SpecCalls == CallsInit /\ [][CallsNext]_vars

\* every thread that can take a step eventually takes one: a request
\* returns or raises, a sleep ends, and a released semaphore is handed on
CallsFair ==
  \A t \in 1..PoolThreads :
    /\ WF_vars(CallAcquire(t))
    /\ WF_vars(CallAttempt(t))
    /\ WF_vars(CallWake(t))
    /\ WF_vars(CallFallThrough(t))

SpecCallsFair == CallsInit /\ [][CallsNext]_vars /\ CallsFair

\* the attempts a call has made so far
Tries(c) == Cardinality({i \in DOMAIN c.log : c.log[i].ev # "sleep"})

\* attempts and sleeps alternate: attempt k is entry 2k+1, only a failed
\* attempt is followed by anything, and what follows is the sleep of
\* OPENAI_BACKOFF_BASE * 2^k plus a jitter of up to 0.25 s, then attempt k+1
AlternatingLog(c) ==
  \A i \in DOMAIN c.log :
    IF i % 2 = 1
    THEN /\ c.log[i].ev \in {"ok", "failed"}
         /\ c.log[i].attempt = (i - 1) \div 2
         /\ c.log[i].ev = "ok" => i = Len(c.log)
    ELSE /\ c.log[i].ev = "sleep"
         /\ c.log[i - 1].ev = "failed"
         /\ c.log[i].sleep_s.lo = cfg.OPENAI_BACKOFF_BASE * (2 ^ ((i \div 2) - 1))
         /\ c.log[i].sleep_s.hi = c.log[i].sleep_s.lo + 25
         /\ (c.pc # "done" \/ i < Len(c.log))

\* how a call may end
CallOutcome(c) ==
  c.pc = "done" =>
    \/ /\ c.result = "returned"
       /\ c.log[Len(c.log)].ev = "ok"
    \/ /\ c.result = "raised"
       /\ Tries(c) = cfg.OPENAI_MAX_RETRIES
       /\ c.log[Len(c.log)].ev = "failed"
       /\ c.err = c.log[Len(c.log)].attempt
    \/ /\ c.result = "none"
       /\ c.log = <<>>
       /\ cfg.OPENAI_MAX_RETRIES <= 0

\* C17: an oracle call makes at most OPENAI_MAX_RETRIES attempts; it
\* returns at the first attempt that succeeds; it sleeps, with exponential
\* backoff plus jitter, only between a failed attempt and the next; after
\* the last failed attempt it raises the error of that attempt; and every
\* call that was started ends.
C17_BoundedRetries ==
  /\ [](\A t \in 1..PoolThreads :
          /\ Tries(calls[t]) <= cfg.OPENAI_MAX_RETRIES
          /\ AlternatingLog(calls[t])
          /\ CallOutcome(calls[t]))
  /\ \A t \in 1..PoolThreads : (calls[t].pc = "waiting") ~> (calls[t].pc = "done")

\* with three attempts allowed, one call raised after three failures and
\* two sleeps, and another returned at its second attempt
C17_Witness ==
  /\ cfg.OPENAI_MAX_RETRIES = 3
  /\ \E t, u \in 1..PoolThreads :
       /\ calls[t].pc = "done" /\ calls[t].result = "raised"
       /\ Len(calls[t].log) = 5 /\ calls[t].err = 2
       /\ calls[u].pc = "done" /\ calls[u].result = "returned"
       /\ Len(calls[u].log) = 3

\* the calls that hold a request or sleep between two attempts
InFlight == {t \in 1..PoolThreads : calls[t].pc \in {"request", "sleeping", "fallthrough"}}

\* C18: the number of oracle calls in flight, those sleeping between
\* retries included, never exceeds OPENAI_CONCURRENCY, however many pool
\* threads have entered a call.
C18_ConcurrencyBound ==
  /\ Cardinality(InFlight) <= cfg.OPENAI_CONCURRENCY
  /\ Cardinality(InFlight) + _openai_sem = cfg.OPENAI_CONCURRENCY

\* the limit is 1, one call sleeps between retries and the two other
\* threads wait for the semaphore
C18_Witness ==
  /\ cfg.OPENAI_CONCURRENCY = 1
  /\ \E t \in 1..PoolThreads :
       /\ calls[t].pc = "sleeping"
       /\ \A u \in 1..PoolThreads \ {t} : calls[u].pc = "waiting"
----------------------------------------------------------------------------
(* The persisted superset across processes: main invoked on one image set  *)
(* by processes that may overlap.  Each process runs lines 743-748 (load), *)
(* 1274-1294 (accumulate) and 1303-1687 (Phase 2, verification, final      *)
(* cleanup, persist) with the smart settings; the file is touched only by  *)
(* _load_superset and _save_superset.                                      *)

Processes == 2
MaxStarts == 2

\* the runs the detection stage may consolidate
StoreRuns == { <<ItemPlateA>>, <<ItemHood>>, <<ItemHoodA, ItemHoodC>> }

\* the reply of Phase 2 and the outcome of a verification task
StoreReplies == {Phase2Raised, Phase2Reply(<<>>)}
StoreOutcomes == {TaskRaised, TaskAnswers(PassAnswer(TRUE, 90), PassAnswer(TRUE, 90))}

\* a process that has not been started
NoProc ==
  [pc |-> "idle", inv |-> 0, superset_map |-> <<>>, superset_runs |-> 0,
   objs |-> <<>>, objRef |-> <<>>, log |-> <<>>, stale |-> FALSE,
   written |-> NoStore]

StoreInit ==
  /\ cfg = SmartConfig
  /\ procs = [p \in 1..Processes |-> NoProc]
  /\ CoreUnusedExceptCfg
  /\ CanonUnused /\ CallsUnused /\ PureUnused

\* the run count written is the one loaded
SameRunCount(run_count) == run_count

\* superset_runs + 1 (line 1680)
NextRunCount(run_count) == run_count + 1

\* a process starts only when no other is between its load and its save
LoadLocked(p) ==
  \A q \in 1..Processes : q = p \/ procs[q].pc \notin {"loaded", "merged"}

\* nothing guards the load-merge-save sequence of a process
LoadGuard(p) == TRUE

\* the invocations started so far
Starts == LET Sum[q \in 0..Processes] == IF q = 0 THEN 0 ELSE Sum[q - 1] + procs[q].inv
          IN Sum[Processes]

\* a process that has just read ld = (map, run_count)
Loaded(pr, ld) ==
  [NoProc EXCEPT !.pc = "loaded", !.inv = pr.inv + 1,
                 !.superset_map = ld.map,
                 !.superset_runs = ld.run_count,
                 !.log = <<[ev |-> "read", run_count |-> ld.run_count]>>]

\* lines 743-748: a process starts and reads the file
\* what the start of an invocation waits for
LoadEnabled(p) ==
  /\ procs[p].pc \in {"idle", "exited"}
  /\ Starts < MaxStarts
  /\ LoadGuard(p)

PLoad(p) ==
  /\ LoadEnabled(p)
  /\ procs' = [procs EXCEPT ![p] = Loaded(procs[p], _load_superset(store))]
  /\ UNCHANGED <<cfg, store, mainLocalVars, prefVars, unionVars, canonVars, callVars, pureVars>>

\* the state of a process after lines 1274-1294 for the confirmed list
Accumulate(pr, confirmed) ==
  [pr EXCEPT !.pc = "merged",
             !.superset_map = AccumulateAll(pr.superset_map, confirmed),
             !.log = Append(@, [ev |-> "merge", run_count |-> 0])]

\* the accumulated list and the entries holding its objects
WithAccumulated(pr) ==
  [pr EXCEPT !.objRef = Accumulated(pr.superset_map),
             !.objs = [i \in 1..Len(Accumulated(pr.superset_map)) |->
                         pr.superset_map[Accumulated(pr.superset_map)[i]].part]]

\* detection and consolidation: every task failed and the process exits
\* (line 1128), or the confirmed parts are counted into the superset
PDetect(p) ==
  /\ procs[p].pc = "loaded"
  /\ \/ procs' = [procs EXCEPT ![p].pc = "exited"]
     \/ \E run \in StoreRuns :
          procs' = [procs EXCEPT ![p] =
            WithAccumulated(Accumulate(procs[p], union_parts(<<run>>).damaged_parts))]
  /\ UNCHANGED <<cfg, store, mainLocalVars, prefVars, unionVars, canonVars, callVars, pureVars>>

\* the objects after Phase 2 and verification, and the indices of the kept
Verification(os, outcomes) ==
  CollectAll([objs |-> os, kept |-> <<>>, dropped |-> <<>>],
             [i \in 1..Len(os) |-> i], outcomes)

\* the map after the persist loop of lines 1674-1678
FinalMap(pr, st) ==
  PersistFinal(
    WriteBack(pr.superset_map, st.objs,
              [i \in 1..Len(st.objs) |-> IF i <= Len(pr.objRef) THEN pr.objRef[i] ELSE 0]),
    [i \in 1..Len(FinalParts(st.objs, st.kept, {})) |->
       st.objs[FinalParts(st.objs, st.kept, {})[i]]])

\* the process after its write, or after the write raised
AfterSave(pr, m, saved) ==
  [pr EXCEPT !.pc = "idle",
             !.superset_map = m,
             !.written = IF saved THEN _save_superset(m, NextRunCount(pr.superset_runs))
                         ELSE NoStore,
             !.log = IF saved
                     THEN @ \o <<[ev |-> "merge", run_count |-> 0],
                                 [ev |-> "write", run_count |-> NextRunCount(pr.superset_runs)]>>
                     ELSE Append(@, [ev |-> "merge", run_count |-> 0])]

\* the processes after process p has written: the others that loaded
\* before this write hold a state the file no longer has
Overtaken(ps, p) ==
  [q \in 1..Processes |->
     IF q # p /\ ps[q].pc \in {"loaded", "merged"}
     THEN [ps[q] EXCEPT !.stale = TRUE] ELSE ps[q]]

\* the processes after process p has run to the end with map m
Ended(ps, p, m, saved) ==
  IF saved THEN Overtaken([ps EXCEPT ![p] = AfterSave(ps[p], m, TRUE)], p)
  ELSE [ps EXCEPT ![p] = AfterSave(ps[p], m, FALSE)]

\* verification and the rest of main for the objects os that Phase 2 left
PVerifyAndSave(p, os) ==
  \E outcomes \in [1..Len(os) -> StoreOutcomes], saved \in BOOLEAN :
    /\ procs' = Ended(procs, p, FinalMap(procs[p], Verification(os, outcomes)), saved)
    /\ store' = IF saved THEN procs'[p].written ELSE store

\* Phase 2 to the end of main: an exception of an oracle call outside the
\* guarded blocks ends the process; otherwise the kept parts are merged
\* into the map and the file is written (a failed write is only reported)
PFinish(p) ==
  /\ procs[p].pc = "merged"
  /\ \E reply \in StoreReplies :
       IF reply.raised
       THEN /\ procs' = [procs EXCEPT ![p].pc = "exited"]
            /\ UNCHANGED store
       ELSE PVerifyAndSave(p, Phase2Merge(procs[p].objs, reply.damaged_parts))
  /\ UNCHANGED <<cfg, mainLocalVars, prefVars, unionVars, canonVars, callVars, pureVars>>

StoreNext == \E p \in 1..Processes : PLoad(p) \/ PDetect(p) \/ PFinish(p)

SpecStore == StoreInit /\ [][StoreNext]_vars

----------------------------------------------------------------------------
(* Properties of the persisted superset *)

\* the keys of a saved state and the count saved for a key
StoreKeys(s) == {<<s.parts[e].name, s.parts[e].location>> : e \in 1..Len(s.parts)}

StoreCount(s, k) ==
  IF k \in StoreKeys(s)
  THEN (CHOOSE it \in Range(s.parts) : <<it.name, it.location>> = k).count
  ELSE 0

\* process p writes the file in this step
Writes(p) ==
  /\ procs[p].pc = "merged"
  /\ procs'[p].pc = "idle"
  /\ procs'[p].written # NoStore

\* C12: from one invocation's saved state to the next, for invocations that
\* follow one another, no key is removed from the persisted map and the
\* persisted count of every key does not decrease.
C12_NeverShrinks ==
  [][\A p \in 1..Processes :
       (Writes(p) /\ ~procs[p].stale) =>
         \A k \in StoreKeys(store) :
           /\ k \in StoreKeys(store')
           /\ StoreCount(store', k) >= StoreCount(store, k)]_vars

\* the counts alone: a key that is still there has not lost count
C12_CountsOfKeptKeys ==
  [][\A p \in 1..Processes :
       (Writes(p) /\ ~procs[p].stale) =>
         \A k \in StoreKeys(store) \cap StoreKeys(store') :
           StoreCount(store', k) >= StoreCount(store, k)]_vars

\* C19: nothing guards the load-merge-save sequence: a process can load
\* while another is between its load and its save, and a write replaces
\* the file by what the writer made of its own load, with its own loaded
\* run count plus one, whatever was written in between; so the updates of
\* the process that saved first can be lost.
C19_Unguarded ==
  /\ [](\A p \in 1..Processes :
          (procs[p].pc \in {"idle", "exited"} /\ Starts < MaxStarts) => LoadEnabled(p))
  /\ [][\A p \in 1..Processes :
          Writes(p) =>
            /\ store' = _save_superset(procs'[p].superset_map, procs[p].log[1].run_count + 1)
            /\ \A k \in StoreKeys(store') :
                 EntryIndex(procs[p].superset_map, k) # 0
                 \/ \E i \in 1..Len(procs[p].objs) : _key_for_part(canonicalize_part(procs[p].objs[i])) = k]_vars

\* two processes loaded the empty state; the one that saved first had
\* counted a key; the file after both have finished is the second one's,
\* without that key and with run_count 1
C19_Witness ==
  \E p, q \in 1..Processes :
    /\ p # q
    /\ procs[p].pc = "idle" /\ procs[q].pc = "idle"
    /\ procs[p].written # NoStore /\ procs[q].written # NoStore
    /\ ~procs[p].stale /\ procs[q].stale
    /\ procs[p].log[1].run_count = 0 /\ procs[q].log[1].run_count = 0
    /\ store = procs[q].written
    /\ store.run_count = 1
    /\ \E k \in StoreKeys(procs[p].written) :
         /\ StoreCount(procs[p].written, k) = 1
         /\ k \notin StoreKeys(store)

\* C20: within one invocation the file is read once, before any merge,
\* and written at most once, after every merge; nothing is read after the
\* write; the run count written is the run count read plus one; and the
\* file changes only by that write.
C20_ReadOnceWriteOnce ==
  /\ [](\A p \in 1..Processes :
          /\ procs[p].inv > 0 =>
               /\ procs[p].log # <<>>
               /\ procs[p].log[1].ev = "read"
               /\ procs[p].log[1].run_count = procs[p].superset_runs
          /\ \A i \in 2..Len(procs[p].log) : procs[p].log[i].ev # "read"
          /\ \A i \in 1..Len(procs[p].log) :
               procs[p].log[i].ev = "write" =>
                 /\ i = Len(procs[p].log)
                 /\ procs[p].log[i].run_count = procs[p].log[1].run_count + 1
                 /\ procs[p].written.run_count = procs[p].log[i].run_count)
  /\ [][store' # store =>
          \E p \in 1..Processes :
            /\ Writes(p)
            /\ procs'[p].log[Len(procs'[p].log)].ev = "write"
            /\ Len(procs'[p].log) >= 3
            /\ store'.run_count = procs'[p].log[1].run_count + 1]_vars

\* a second invocation read run count 1, merged twice and wrote run count 2
C20_Witness ==
  \E p \in 1..Processes :
    /\ procs[p].pc = "idle"
    /\ Len(procs[p].log) = 4
    /\ procs[p].log[1] = [ev |-> "read", run_count |-> 1]
    /\ procs[p].log[2].ev = "merge" /\ procs[p].log[3].ev = "merge"
    /\ procs[p].log[4] = [ev |-> "write", run_count |-> 2]
    /\ store.run_count = 2
----------------------------------------------------------------------------
(* The accumulated list (lines 1274-1294) on its own: main at the          *)
(* accumulation block, with a superset loaded from a file of an earlier    *)
(* invocation and the consolidated parts of this one.                      *)

MaxMinSupport == 3
MaxStoredCount == 2

AccumConfigs ==
  { [SmartConfig EXCEPT !.PERSIST_MIN_SUPPORT = n] : n \in 0..MaxMinSupport }

ItemGrill == DictItem(MkPart(T_FrontGrill, T_Front, S_minor, T_dent, None, None))
ItemBonnet == DictItem(MkPart(T_Bonnet, T_Front, S_moderate, T_deep_dent, None, None))

\* a superset entry as the accumulation loop leaves it
StoredEntry(item, count) ==
  [key |-> _key_for_part(SanitizeItem(item)[1]), count |-> count,
   part |-> SanitizeItem(item)[1]]

\* the maps an earlier invocation may have saved
AccumMaps ==
  { SelectSeq(<<StoredEntry(ItemHood, c1), StoredEntry(ItemBumper, c2),
                StoredEntry(ItemGrill, c3)>>, LAMBDA e : e.count > 0) :
      c1 \in 0..MaxStoredCount, c2 \in 0..MaxStoredCount, c3 \in 0..MaxStoredCount }

\* the run both detection tasks of this invocation returned, and what
\* union_parts makes of the two runs: every part with two votes, sorted
AccumRuns ==
  { SelectSeq(<<ItemBonnet, ItemGrill, ItemBumper, ItemHood>>, LAMBDA it : it \in S) :
      S \in (SUBSET {ItemBonnet, ItemGrill, ItemBumper, ItemHood})
              \ ({{}} \cup {S \in SUBSET {ItemBonnet, ItemGrill, ItemBumper, ItemHood} :
                                {ItemBonnet, ItemHood} \subseteq S}) }

Consolidated(r) ==
  [damaged_parts |-> SortParts([i \in 1..Len(r) |->
                                  [SanitizeItem(r[i])[1] EXCEPT !._votes = 2]]),
   potential_parts |-> <<>>]

AccumDetections == { [runs |-> <<r, r>>, detected |-> Consolidated(r)] : r \in AccumRuns }

AccumInit ==
  /\ cfg \in AccumConfigs
  /\ \E m \in AccumMaps :
       store = IF m = <<>> THEN NoStore ELSE _save_superset(m, MaxStoredCount)
  /\ mPC = "accumulate" /\ inv = 1
  /\ superset_map = _load_superset(store).map
  /\ superset_runs = _load_superset(store).run_count
  /\ loaded = superset_map
  /\ \E d \in AccumDetections : runs = d.runs /\ detected = d.detected
  /\ results_by_idx = [i \in 1..Len(runs) |-> TaskRun(runs[i])]
  /\ objs = <<>> /\ objRef = <<>> /\ dmg = <<>> /\ potential = <<>>
  /\ kept = <<>> /\ dropped = <<>> /\ vOutcome = <<>> /\ reports = <<>>
  /\ pNew = EmptyPart /\ pBase = EmptyPart /\ pOut = <<>> /\ pPC = "idle"
  /\ uNRuns = 0 /\ uCnt = 0 /\ clusters_by_key = <<>> /\ uPC = "idle"
  /\ uOut = [damaged_parts |-> <<>>, potential_parts |-> <<>>]
  /\ AuxUnused

\* the consolidated parts of an initial state are what union_parts returns
AccumInitIsConsolidated ==
  mPC = "accumulate" => detected = union_parts(runs)

AccumNext == MAccumulate

SpecAccum == AccumInit /\ [][AccumNext]_vars

\* entry a is listed before entry b: higher count, then higher severity
\* rank, then the smaller name, or all three equal
InListOrder(a, b) ==
  \/ a.count > b.count
  \/ a.count = b.count /\ SeverityPriority(a.part) > SeverityPriority(b.part)
  \/ /\ a.count = b.count /\ SeverityPriority(a.part) = SeverityPriority(b.part)
     /\ (a.key[1] = b.key[1] \/ StrLess(a.key[1], b.key[1]))

\* C21: after the accumulation the output list is exactly the parts of the
\* superset entries whose count is at least max(1, PERSIST_MIN_SUPPORT),
\* each once, ordered by count descending, then severity rank descending,
\* then name ascending (the entry's key name, which is its part's name).
C21_AccumulatedList ==
  (mPC = "phase2" /\ cfg.PERSIST_MAX_UNION) =>
    /\ {objRef[i] : i \in DOMAIN objRef} =
         {e \in DOMAIN superset_map :
            superset_map[e].count >= 1
            /\ superset_map[e].count >= cfg.PERSIST_MIN_SUPPORT}
    /\ Len(objs) = Len(objRef)
    /\ \A i \in DOMAIN objRef :
         /\ objs[i] = superset_map[objRef[i]].part
         /\ _norm(objs[i].name) = superset_map[objRef[i]].key[1]
    /\ \A i, j \in DOMAIN objRef :
         i < j => /\ objRef[i] # objRef[j]
                  /\ InListOrder(superset_map[objRef[i]], superset_map[objRef[j]])

\* with a minimum support of 2, two of three entries are listed and the
\* one counted once is left out; the two have the same count and severity
\* rank and stand in name order, against their order in the map
C21_Witness ==
  /\ mPC = "phase2" /\ cfg.PERSIST_MIN_SUPPORT = 2
  /\ Len(objRef) = 2 /\ Len(superset_map) = 3
  /\ superset_map[objRef[1]].count = superset_map[objRef[2]].count
  /\ SeverityPriority(objs[1]) = SeverityPriority(objs[2])
  /\ StrLess(objs[1].name, objs[2].name)
  /\ objRef[1] > objRef[2]
  /\ \E e \in DOMAIN superset_map : superset_map[e].count = 1

\* neighbours of equal count ordered by severity against their names
C21_SeverityBeforeName ==
  /\ mPC = "phase2"
  /\ \E i \in DOMAIN objRef : \E j \in DOMAIN objRef :
       /\ i < j
       /\ superset_map[objRef[i]].count = superset_map[objRef[j]].count
       /\ SeverityPriority(objs[i]) > SeverityPriority(objs[j])
       /\ StrLess(objs[j].name, objs[i].name)
----------------------------------------------------------------------------
(* union_parts: what a candidate may be merged with *)

\* the cluster list of a key after candidate cand of run rid: one cluster
\* of the same kind (with or without a box) took the candidate in, or a new
\* cluster was appended with the candidate as its representative
KindRule(old, new, cand, rid) ==
  \/ /\ Len(new) = Len(old)
     /\ \E m \in DOMAIN old :
          /\ (old[m].bbox_px = None) <=> ~Truthy(cand.bbox_px)
          /\ new[m].hist = Append(old[m].hist, rid)
          /\ new[m].bbox_px = old[m].bbox_px
          /\ \A i \in DOMAIN old : i # m => new[i] = old[i]
  \/ /\ new = Append(old, new[Len(new)])
     /\ new[Len(new)].rep = cand
     /\ new[Len(new)].hist = <<rid>>
     /\ new[Len(new)].bbox_px = (IF Truthy(cand.bbox_px) THEN cand.bbox_px ELSE None)
     /\ ~Truthy(cand.bbox_px) => \A i \in DOMAIN old : old[i].bbox_px # None

\* the clusters of every key but k are as they were
OtherKeysKept(old, new, k) ==
  /\ \A i \in DOMAIN old : old[i].key # k => new[i] = old[i]
  /\ \A i \in DOMAIN new : new[i].key # k => (i \in DOMAIN old /\ new[i] = old[i])

\* C22: a candidate is merged only into a cluster of its own canonical
\* key; one with a box never into a cluster founded without one, one
\* without a box never into a cluster founded with one; a key has at most
\* one cluster without a box; a candidate that matches no cluster founds a
\* new cluster whose representative is that candidate.
C22_SameKeySameKind ==
  [][/\ \A k \in DOMAIN clusters_by_key' :
          /\ \A i, j \in DOMAIN clusters_by_key'[k].clusters :
               (clusters_by_key'[k].clusters[i].bbox_px = None
                /\ clusters_by_key'[k].clusters[j].bbox_px = None) => i = j
          /\ \A i \in DOMAIN clusters_by_key'[k].clusters :
               /\ PartKey(clusters_by_key'[k].clusters[i].rep) = clusters_by_key'[k].key
               /\ (clusters_by_key'[k].clusters[i].bbox_px = None)
                    <=> ~Truthy(clusters_by_key'[k].clusters[i].rep.bbox_px)
     /\ (uPC = "loop" /\ uCnt' = uCnt + 1) =>
          \A item \in UnionItems : \A c \in DOMAIN SanitizedItem[item] :
            (/\ ClustersOf(clusters_by_key', PartKey(SanitizedItem[item][c]))
                  # ClustersOf(clusters_by_key, PartKey(SanitizedItem[item][c]))
             /\ clusters_by_key' =
                  ProcessCands(clusters_by_key, uNRuns - 1, SanitizedItem[item]))
              =>   /\ OtherKeysKept(clusters_by_key, clusters_by_key',
                                    PartKey(SanitizedItem[item][c]))
                   /\ KindRule(ClustersOf(clusters_by_key, PartKey(SanitizedItem[item][c])),
                               ClustersOf(clusters_by_key', PartKey(SanitizedItem[item][c])),
                               SanitizedItem[item][c], uNRuns - 1)]_vars

\* one key holds a cluster without a box that took in the box-less
\* candidates of two runs and, next to it, a cluster founded with a box
C22_Witness ==
  \E k \in DOMAIN clusters_by_key :
    /\ Len(clusters_by_key[k].clusters) >= 2
    /\ \E i, j \in DOMAIN clusters_by_key[k].clusters :
         /\ clusters_by_key[k].clusters[i].bbox_px = None
         /\ Len(clusters_by_key[k].clusters[i].hist) = 2
         /\ clusters_by_key[k].clusters[j].bbox_px # None
         /\ Len(clusters_by_key[k].clusters[j].hist) = 2

\* the keys with a cluster that meets its vote threshold
KeysMeetingThreshold ==
  {PartKey(RawParts[i]) : i \in {j \in DOMAIN RawParts :
                                   RawParts[j]._votes >= RequiredVotes(RawParts[j])}}

\* C26: in comprehensive mode the keys of potential_parts are exactly the
\* keys that have a cluster and no cluster meeting the vote threshold; each
\* such key is listed once, by a part that failed the threshold, with
\* reason insufficient_votes.
C26_UnconfirmedKeysArePotential ==
  (uPC = "done" /\ cfg.COMPREHENSIVE_MODE) =>
    /\ KeysOf(uOut.potential_parts) = KeysOf(RawParts) \ KeysMeetingThreshold
    /\ \A i, j \in DOMAIN uOut.potential_parts :
         PartKey(uOut.potential_parts[i]) = PartKey(uOut.potential_parts[j]) => i = j
    /\ \A i \in DOMAIN uOut.potential_parts :
         /\ uOut.potential_parts[i]._potential_reason = "insufficient_votes"
         /\ uOut.potential_parts[i]._votes < RequiredVotes(uOut.potential_parts[i])
         /\ [uOut.potential_parts[i] EXCEPT !._potential_reason = ""] \in Range(RawParts)
         /\ PartKey(uOut.potential_parts[i]) \notin KeysOf(uOut.damaged_parts)

\* MIN_VOTES_MINOR = 3: a key reported once, as minor, is not confirmed and
\* is listed as potential; another key of the same call has two clusters
\* below the threshold and is listed once
C26_Witness ==
  /\ uPC = "done" /\ cfg.COMPREHENSIVE_MODE /\ cfg.MIN_VOTES_MINOR = 3
  /\ \E i \in DOMAIN uOut.potential_parts :
       /\ uOut.potential_parts[i]._votes = 1
       /\ uOut.potential_parts[i].severity = S_minor
       /\ Len(PartsOfKey(PartKey(uOut.potential_parts[i]))) = 1
  /\ \E i \in DOMAIN uOut.potential_parts :
       Len(PartsOfKey(PartKey(uOut.potential_parts[i]))) = 2

\* a call that returns confirmed parts next to a potential one
C26_NextToConfirmed ==
  /\ uPC = "done" /\ cfg.COMPREHENSIVE_MODE
  /\ uOut.damaged_parts # <<>> /\ uOut.potential_parts # <<>>

----------------------------------------------------------------------------
(* union_parts._upgrade: what the representative keeps of the two records *)

\* C24: when a candidate is merged into a cluster of its key, the new
\* representative has an image whenever the old representative or the
\* candidate had one, and a bounding box whenever either had one.
C24_CarriesImageAndBox ==
  (pPC = "done" /\ PartKey(pNew) = PartKey(pBase)) =>
    /\ (Truthy(pBase.image) \/ Truthy(pNew.image)) => Truthy(pOut[3].image)
    /\ (Truthy(pBase.bbox_px) \/ Truthy(pNew.bbox_px)) => Truthy(pOut[3].bbox_px)

\* what holds: a winning candidate takes over the image and the box it
\* lacks from the old representative; a losing candidate leaves the old
\* representative as it was
C24_OnlyTheWinnerInherits ==
  (pPC = "done" /\ PartKey(pNew) = PartKey(pBase)) =>
    \/ pOut[3] = pBase
    \/ /\ [pOut[3] EXCEPT !.image = pNew.image, !.bbox_px = pNew.bbox_px] = pNew
       /\ Truthy(pBase.image) => Truthy(pOut[3].image)
       /\ Truthy(pBase.bbox_px) => Truthy(pOut[3].bbox_px)

\* the candidate with an image lost against a representative without one
C24_ImageLost ==
  /\ pPC = "done" /\ PartKey(pNew) = PartKey(pBase)
  /\ Truthy(pNew.image) /\ ~Truthy(pBase.image)
  /\ pOut[3] = pBase
----------------------------------------------------------------------------
(* The verification stage under every shape of VERIFY_TEMPS (lines 75-83:  *)
(* a list of floats of any length, [0.0, 0.2] when nothing parses) and     *)
(* every VERIFY_REQUIRE_PASSES_* from 1 to MaxRequiredPasses (lines 84-87) *)

MaxRequiredPasses == 3

TempLists == { <<>>, <<30>>, <<0, 30>>, <<0, 20, 70>> }

PassConfigs ==
  { [SmartConfig EXCEPT !.VERIFY_TEMPS = t,
                        !.VERIFY_REQUIRE_PASSES_SEVERE = n,
                        !.VERIFY_REQUIRE_PASSES_MODERATE = n,
                        !.VERIFY_REQUIRE_PASSES_MINOR = n] :
      t \in TempLists, n \in 1..MaxRequiredPasses }

PassesInit == VerifyInitFor(PassConfigs)

SpecPasses == PassesInit /\ [][VerifyNext]_vars

\* the temperature of pass j as the configuration gives it: the j-th
\* configured one, the only one when one is configured, the default when none
ConfiguredTemp(j) ==
  IF cfg.VERIFY_TEMPS = <<>> THEN (IF j = 1 THEN 0 ELSE 20)
  ELSE IF Len(cfg.VERIFY_TEMPS) = 1 THEN cfg.VERIFY_TEMPS[1]
  ELSE cfg.VERIFY_TEMPS[j]

\* verify_one returned for object i
VerifyRan(i) == vOutcome[i] # NoOutcome /\ ~vOutcome[i].raised

IsKept(i) == \E k \in 1..Len(kept) : kept[k] = i

\* C29: every verification that ran made exactly two passes, whatever the
\* number of configured temperatures: its evidence lists two passes, the
\* first two configured temperatures (one temperature twice, the default
\* pair when none), votes_yes is 0, 1 or 2, and a part whose required
\* consensus exceeds 2 is never kept.
C29_TwoPasses ==
  \A i \in 1..Len(vOutcome) :
    /\ VerifyRan(i) =>
         /\ Len(vOutcome[i].answers) = 2
         /\ EvidenceOf(i).kind = "evidence"
         /\ Len(EvidenceOf(i).passes) = 2
         /\ \A j \in 1..2 : EvidenceOf(i).passes[j].temp = ConfiguredTemp(j)
         /\ EvidenceOf(i).votes_yes \in 0..2
         /\ EvidenceOf(i).votes_yes =
              Cardinality(YesAnswers(i, EvidenceOf(i).threshold))
         /\ IsKept(i) <=> EvidenceOf(i).votes_yes >= EvidenceOf(i).consensus_required
    /\ (vOutcome[i] # NoOutcome /\ ConsensusRequired(objs[i]) > 2) => ~IsKept(i)

\* one temperature is configured and used twice, two yes-votes were given,
\* and the part is dropped because three are required
C29_Witness ==
  /\ Len(cfg.VERIFY_TEMPS) = 1
  /\ \E i \in 1..Len(vOutcome) :
       /\ VerifyRan(i)
       /\ ConsensusRequired(objs[i]) = 3
       /\ ~IsKept(i)
       /\ EvidenceOf(i).votes_yes = 2
       /\ EvidenceOf(i).passes[1].temp = cfg.VERIFY_TEMPS[1]
       /\ EvidenceOf(i).passes[2].temp = cfg.VERIFY_TEMPS[1]

\* three temperatures are configured and the third is used by no pass
C29_ThirdIgnored ==
  /\ Len(cfg.VERIFY_TEMPS) = 3
  /\ \E i \in 1..Len(vOutcome) :
       /\ VerifyRan(i) /\ IsKept(i)
       /\ \A j \in 1..Len(EvidenceOf(i).passes) :
            EvidenceOf(i).passes[j].temp # cfg.VERIFY_TEMPS[3]
----------------------------------------------------------------------------
(* The semaphore over the life of a pool (lines 131-148, 152-169; the      *)
(* pools of lines 1093-1125 and 1501-1508)                                 *)

\* every call that was entered has ended and no thread is inside one
AllCallsEnded == \A t \in 1..PoolThreads : calls[t].pc \in {"idle", "done"}

\* thread t leaves a call in this step
CallEnds(t) == calls[t].pc \in {"request", "fallthrough"} /\ calls'[t].pc = "done"

\* C30: the permit is released on every exit path of an oracle call
\* (return, error after the last retry, or no attempt at all), so all
\* OPENAI_CONCURRENCY permits are available whenever all calls have ended;
\* and with more pool threads than permits, provided every request returns
\* or fails, the pool comes to rest with every call ended and all permits
\* back: no task waits for the semaphore for ever.
C30_PermitsReturned ==
  /\ [](AllCallsEnded => _openai_sem = cfg.OPENAI_CONCURRENCY)
  /\ [][\A t \in 1..PoolThreads : CallEnds(t) => _openai_sem' = _openai_sem + 1]_vars
  /\ <>[](AllCallsEnded /\ _openai_sem = cfg.OPENAI_CONCURRENCY)

\* three threads over one permit: every thread made all its calls, one of
\* the calls raised after its last retry, another returned, and the permit
\* is available again
C30_Witness ==
  /\ cfg.OPENAI_CONCURRENCY = 1 /\ PoolThreads > cfg.OPENAI_CONCURRENCY
  /\ AllCallsEnded
  /\ \A t \in 1..PoolThreads : calls[t].made = MaxCallsPerThread
  /\ \E t, u \in 1..PoolThreads :
       /\ calls[t].result = "raised" /\ calls[t].err > 0
       /\ calls[u].result = "returned"
  /\ _openai_sem = 1
----------------------------------------------------------------------------
(* Counts against the number of invocations (lines 1274-1283, 1680) *)

\* C27 (as stated): in every saved state reached from an empty store the
\* count of each key is at most the saved run_count, an invocation adding
\* at most 1 to the count of a key.
C27_CountWithinRunCount ==
  store.exists =>
    \A e \in 1..Len(store.parts) : store.parts[e].count <= store.run_count

\* what holds instead: an invocation adds to the count of a key the number
\* of confirmed parts of its consolidated list that have this key
C27_CountsPerConfirmedPart ==
  [][\A p \in 1..Processes :
       (procs[p].pc = "loaded" /\ procs'[p].pc = "merged") =>
         \E run \in StoreRuns :
           \A e \in 1..Len(procs'[p].superset_map) :
             procs'[p].superset_map[e].count =
               EntryGet(procs[p].superset_map, procs'[p].superset_map[e].key).count
               + Cardinality({i \in 1..Len(union_parts(<<run>>).damaged_parts) :
                    _key_for_part(union_parts(<<run>>).damaged_parts[i]) =
                      procs'[p].superset_map[e].key})]_vars

\* the first invocation saved a count of 2 with run_count 1
C27_TwoInOneInvocation ==
  /\ store.exists /\ store.run_count = 1
  /\ \E e \in 1..Len(store.parts) : store.parts[e].count = 2
----------------------------------------------------------------------------
(* Invocations that find no file, a file that cannot be read, or a file    *)
(* that is not the document _save_superset writes (lines 324-348, 743-748, *)
(* 1672-1687)                                                              *)

\* the documents of the files found: two keys no detection run below
\* reports, and a key the runs report
OtherKeysDocument ==
  _save_superset(<<StoredEntry(ItemBumper, 2), StoredEntry(ItemGrill, 1)>>, 2)

BadDocuments == { OtherKeysDocument, _save_superset(<<StoredEntry(ItemHood, 2)>>, 2) }

BadStores ==
  {NoStore} \cup { [d EXCEPT !.kind = k] : d \in BadDocuments, k \in {"unreadable", "malformed"} }

BadStoreInit ==
  /\ cfg = SmartConfig
  /\ store \in BadStores
  /\ procs = [p \in 1..Processes |-> NoProc]
  /\ pNew = EmptyPart /\ pBase = EmptyPart /\ pOut = <<>> /\ pPC = "idle"
  /\ uNRuns = 0 /\ uCnt = 0 /\ clusters_by_key = <<>> /\ uPC = "idle"
  /\ uOut = [damaged_parts |-> <<>>, potential_parts |-> <<>>]
  /\ MainLocalUnused
  /\ CanonUnused /\ CallsUnused /\ PureUnused

SpecBadStore == BadStoreInit /\ [][StoreNext]_vars

\* the file gives no superset
NoUsableStore(st) == ~st.exists \/ st.kind # "json"

\* process p starts in this step
Starting(p) == procs[p].pc \in {"idle", "exited"} /\ procs'[p].pc = "loaded"

\* C28: an invocation that finds no file, or a file that is unreadable or
\* malformed, is not aborted by it: it can always start, _load_superset
\* gives it the empty map and run count 0, it goes on exactly as one that
\* found no file, and when it saves, the file becomes the document of this
\* invocation alone, with run_count 1.
C28_BadStoreIsAFirstRun ==
  /\ [](\A p \in 1..Processes :
          (procs[p].pc \in {"idle", "exited"} /\ Starts < MaxStarts) => LoadEnabled(p))
  /\ [][\A p \in 1..Processes :
          /\ (Starting(p) /\ NoUsableStore(store)) =>
               /\ procs'[p].superset_map = <<>> /\ procs'[p].superset_runs = 0
               /\ procs'[p] = Loaded(procs[p], _load_superset(NoStore))
          /\ (Writes(p) /\ procs[p].superset_runs = 0) =>
               /\ store' = _save_superset(procs'[p].superset_map, 1)
               /\ store'.kind = "json" /\ store'.run_count = 1
               /\ \A e \in 1..Len(store'.parts) :
                    /\ store'.parts[e].count <= 2
                    /\ <<store'.parts[e].name, store'.parts[e].location>>
                         \notin StoreKeys(OtherKeysDocument)]_vars

\* a malformed file with two keys is there, and an invocation that read
\* it has counted its own confirmed part into an empty map
C28_Witness ==
  /\ store.exists /\ store.kind = "malformed" /\ Len(store.parts) = 2
  /\ \E p \in 1..Processes :
       /\ procs[p].pc = "merged"
       /\ procs[p].log[1] = [ev |-> "read", run_count |-> 0]
       /\ procs[p].superset_runs = 0
       /\ Len(procs[p].superset_map) = 1
       /\ procs[p].superset_map[1].count = 1

\* an unreadable file is there and an invocation has read it
C28_Unreadable ==
  /\ store.exists /\ store.kind = "unreadable"
  /\ \E p \in 1..Processes : procs[p].pc = "loaded" /\ procs[p].superset_map = <<>>

\* the only invocation so far read no usable file and its save is the file
C28_Replaced ==
  \E p \in 1..Processes :
    /\ procs[p].pc = "idle" /\ procs[p].inv = 1
    /\ procs[p].log[1] = [ev |-> "read", run_count |-> 0]
    /\ store = procs[p].written
    /\ store.kind = "json" /\ store.run_count = 1 /\ store.parts # <<>>
    /\ \A q \in 1..Processes : q # p => procs[q] = NoProc
----------------------------------------------------------------------------
(* union_parts (lines 556-704) called on one collection of runs taken in   *)
(* different orders                                                        *)

MaxOrderRuns == 3

BoxD == <<0, 0, 4, 4>>   \* IoU with BoxB is 16/40, with BoxA 16/100

ItemHoodMinorA == DictItem(MkPart(T_Hood, T_Front, S_minor, T_dent, BoxA, None))
ItemHoodMinorB == DictItem(MkPart(T_Hood, T_Front, S_minor, T_dent, BoxB, None))
ItemHoodMinorD == DictItem(MkPart(T_Hood, T_Front, S_minor, T_dent, BoxD, None))

OrderRuns ==
  { <<ItemHoodMinorA>>, <<ItemHoodMinorB>>, <<ItemHoodMinorD>>, <<ItemBumper>>,
    <<ItemHood, ItemBumper>> }

OrderRunLists == UNION { [1..n -> OrderRuns] : n \in 2..MaxOrderRuns }

OrderConfigs == { DefaultConfig, SmartConfig }

Orders(n) == { f \in [1..n -> 1..n] : \A i, j \in 1..n : f[i] = f[j] => i = j }

\* the runs in the given order
InOrder(run_list, order) == [i \in 1..Len(run_list) |-> run_list[order[i]]]

OrderInit ==
  /\ cfg \in OrderConfigs
  /\ oRuns \in OrderRunLists
  /\ oCall = <<>>
  /\ heap = <<>> /\ hCall = <<>>
  /\ CoreUnusedExceptCfg
  /\ CanonUnused /\ CallsUnused /\ ProcsUnused

\* union_parts(runs) with the runs in some order
OUnion ==
  /\ \E order \in Orders(Len(oRuns)) :
       oCall' = [order |-> order, out |-> union_parts(InOrder(oRuns, order))]
  /\ UNCHANGED <<cfg, prefVars, unionVars, mainVars, canonVars, callVars, procs,
                 oRuns, heap, hCall>>

OrderNext == OUnion

SpecOrder == OrderInit /\ [][OrderNext]_vars

\* the confirmed keys with their vote counts, and the potential keys
ConfirmedVotes(out) ==
  { <<PartKey(out.damaged_parts[i]), out.damaged_parts[i]._votes>> :
      i \in 1..Len(out.damaged_parts) }

PotentialKeys(out) == KeysOf(out.potential_parts)

\* C23 (as stated): every order of the same runs gives the same confirmed
\* keys with the same vote counts, and the same potential keys.
C23_OrderIndependent ==
  oCall # <<>> =>
    /\ ConfirmedVotes(oCall.out) = ConfirmedVotes(union_parts(oRuns))
    /\ PotentialKeys(oCall.out) = PotentialKeys(union_parts(oRuns))

\* no two candidates of one key carry boxes: then the order does not matter
NoTwoBoxes(run_list) ==
  \A i, j \in 1..Len(run_list) : \A a \in 1..Len(run_list[i]), b \in 1..Len(run_list[j]) :
    (<<i, a>> # <<j, b>>
       /\ run_list[i][a].kind = "dict" /\ run_list[j][b].kind = "dict"
       /\ PartKey(SanitizeItem(run_list[i][a])[1]) = PartKey(SanitizeItem(run_list[j][b])[1]))
    => (run_list[i][a].part.bbox_px = None \/ run_list[j][b].part.bbox_px = None)

C23_OrderIndependentWithoutBoxes ==
  (oCall # <<>> /\ NoTwoBoxes(oRuns)) =>
    /\ ConfirmedVotes(oCall.out) = ConfirmedVotes(union_parts(oRuns))
    /\ PotentialKeys(oCall.out) = PotentialKeys(union_parts(oRuns))

\* the runs A, B, D taken as B, A, D: one cluster of three votes, where the
\* order A, B, D gives a cluster of two and a cluster of one
C23_ChainOfBoxes ==
  /\ cfg = DefaultConfig
  /\ oRuns = << <<ItemHoodMinorA>>, <<ItemHoodMinorB>>, <<ItemHoodMinorD>> >>
  /\ oCall # <<>> /\ oCall.order = <<2, 1, 3>>
  /\ Len(oCall.out.damaged_parts) = 1
  /\ oCall.out.damaged_parts[1]._votes = 3
  /\ union_parts(oRuns).damaged_parts = <<>>
----------------------------------------------------------------------------
(* union_parts (lines 556-704) over dict objects: which object every       *)
(* assignment of the function writes to.  An object is its index in heap;  *)
(* a run record is the list of its items, a dict item by its object, a     *)
(* string item by its text.                                                *)

MaxFrameRuns == 2
MaxUnionCalls == 2

DictSlot(ref) == [kind |-> "dict", ref |-> ref, text |-> EmptyStr]
StrSlot(text) == [kind |-> "str", ref |-> 0, text |-> text]

\* the objects and the run record of one run the oracle returned
RECURSIVE LoadRun(_, _, _)
LoadRun(h, items, slots) ==
  IF items = <<>> THEN [heap |-> h, slots |-> slots]
  ELSE IF Head(items).kind = "dict"
       THEN LoadRun(Append(h, Head(items).part), Tail(items),
                    Append(slots, DictSlot(Len(h) + 1)))
       ELSE LoadRun(h, Tail(items), Append(slots, StrSlot(Head(items).text)))

RECURSIVE LoadRuns(_, _, _)
LoadRuns(h, run_list, acc) ==
  IF run_list = <<>> THEN [heap |-> h, runs |-> acc]
  ELSE LoadRuns(LoadRun(h, Head(run_list), <<>>).heap, Tail(run_list),
                Append(acc, LoadRun(h, Head(run_list), <<>>).slots))

\* the items a run record holds
ItemsOf(h, slots) ==
  [i \in 1..Len(slots) |->
     IF slots[i].kind = "dict" THEN DictItem(h[slots[i].ref]) ELSE StrItem(slots[i].text)]

RunValues(h, run_slots) == [i \in 1..Len(run_slots) |-> ItemsOf(h, run_slots[i])]

\* canonicalize_part writing into the dict it is given
canonicalize_in_place(h, ref) ==
  [heap |-> [h EXCEPT ![ref] = canonicalize_part(h[ref])], ref |-> ref]

\* canonicalize_part on an object: q = dict(p), the fields are assigned on
\* q, q is returned (lines 302-309)
canonicalize_copy(h, ref) ==
  [heap |-> Append(h, canonicalize_part(h[ref])), ref |-> Len(h) + 1]

\* sanitize_parts on one item (lines 560-566): the objects appended to safe
SanitizeSlot(h, slot) ==
  IF slot.kind = "dict"
  THEN [heap |-> canonicalize_copy(h, slot.ref).heap,
        refs |-> <<canonicalize_copy(h, slot.ref).ref>>]
  ELSE IF SanitizeItem(StrItem(slot.text)) = <<>> THEN [heap |-> h, refs |-> <<>>]
  ELSE [heap |-> Append(h, SanitizeItem(StrItem(slot.text))[1]), refs |-> <<Len(h) + 1>>]

RECURSIVE SanitizeSlots(_, _, _)
SanitizeSlots(h, slots, refs) ==
  IF slots = <<>> THEN [heap |-> h, refs |-> refs]
  ELSE SanitizeSlots(SanitizeSlot(h, Head(slots)).heap, Tail(slots),
                     refs \o SanitizeSlot(h, Head(slots)).refs)

\* lines 643-651 for candidate object c and the clusters of its key; m is
\* the index of the matching cluster, 0 for none
AddObject(h, clusters, m, c, rid) ==
  IF m = 0
  THEN [heap |-> Append(h, h[c]),                          \* rep = dict(cand)
        clusters |-> Append(clusters, [rep |-> Len(h) + 1, runs |-> {rid},
                                       bbox_px |-> _get_bbox(h[c]), n |-> 1])]
  ELSE IF _upgrade(h[clusters[m].rep], h[c]) # h[clusters[m].rep]
  THEN [heap |-> [h EXCEPT ![c] = _upgrade(h[clusters[m].rep], h[c])],  \* cand["image"] = ..., return cand
        clusters |-> [clusters EXCEPT ![m].rep = c,
                                      ![m].runs = @ \cup {rid}, ![m].n = @ + 1]]
  ELSE [heap |-> h,                                        \* return base
        clusters |-> [clusters EXCEPT ![m].runs = @ \cup {rid}, ![m].n = @ + 1]]

\* clusters_by_key[key] and the heap after the candidate: r = [heap, clusters]
PutClusters(cbk, k, r) ==
  [heap |-> r.heap, cbk |-> [cbk EXCEPT ![k].clusters = r.clusters]]

\* candidate object c against the clusters of the k-th key
ObjectKeyed(h, cbk, k, rid, c) ==
  PutClusters(cbk, k,
    AddObject(h, cbk[k].clusters,
              _match_cluster(cbk[k].clusters, _get_bbox(h[c])), c, rid))

\* the body of the inner loop for candidate object c (lines 639-651)
ObjectCand(h, cbk, rid, c) ==
  IF KeyIndex(cbk, PartKey(h[c])) = 0
  THEN ObjectKeyed(h, SetDefault(cbk, PartKey(h[c])), Len(cbk) + 1, rid, c)
  ELSE ObjectKeyed(h, cbk, KeyIndex(cbk, PartKey(h[c])), rid, c)

RECURSIVE ObjectCands(_, _, _)
ObjectCands(st, rid, refs) ==
  IF refs = <<>> THEN st
  ELSE ObjectCands(ObjectCand(st.heap, st.cbk, rid, Head(refs)), rid, Tail(refs))

\* one run: its items are sanitized, then clustered; s = [heap, refs]
ObjectRun(s, cbk, rid) == ObjectCands([heap |-> s.heap, cbk |-> cbk], rid, s.refs)

\* the loop over the runs (lines 638-651)
RECURSIVE ObjectLoop(_, _, _)
ObjectLoop(st, run_slots, rid) ==
  IF run_slots = <<>> THEN st
  ELSE ObjectLoop(ObjectRun(SanitizeSlots(st.heap, Head(run_slots), <<>>), st.cbk, rid),
                  Tail(run_slots), rid + 1)

\* part["_votes"] = len(cl["runs"]) on every representative (lines 654-659)
RECURSIVE WriteVotes(_, _)
WriteVotes(h, cls) ==
  IF cls = <<>> THEN h
  ELSE WriteVotes([h EXCEPT ![Head(cls).rep]._votes = ClusterVotes(Head(cls))], Tail(cls))

\* lines 661-704 on the flattened parts: the returned lists and the
\* objects of damaged_parts
ObjectResult(h, cls, raw, filtered) ==
  [heap |-> h,
   refs |-> {cls[i].rep : i \in {j \in 1..Len(cls) : MeetsThreshold(raw[j])}},
   damaged_parts |-> SortParts(filtered),
   potential_parts |-> PotentialFromVotes(raw, filtered)]

ObjectFilter(h, cls, raw) == ObjectResult(h, cls, raw, SelectSeq(raw, MeetsThreshold))

ObjectFlatten(h, cls) == ObjectFilter(h, cls, [i \in 1..Len(cls) |-> h[cls[i].rep]])

ObjectVotes(h, cls) == ObjectFlatten(WriteVotes(h, cls), cls)

ObjectClusters(st) == ObjectVotes(st.heap, FlatClusters(st.cbk))

\* union_parts(runs) on objects: the heap after the call, the objects of
\* the returned damaged_parts, and the returned lists
union_parts_objects(h, run_slots) ==
  IF run_slots = <<>>
  THEN [heap |-> h, refs |-> {}, damaged_parts |-> <<>>, potential_parts |-> <<>>]
  ELSE ObjectClusters(ObjectLoop([heap |-> h, cbk |-> <<>>], run_slots, 0))

ItemBonnetImage == DictItem(MkPart(T_Bonnet, T_Front, S_moderate, T_dent, None, T_a_jpg))

FrameRuns ==
  { <<ItemBonnetImage>>, <<ItemBonnet>>, <<ItemPlateA>>, <<StrItem(T_dash_rear_bumper)>>,
    <<ItemHoodA, ItemHoodC>>, <<ItemBonnetImage, ItemBonnet>> }

FrameRunLists == UNION { [1..n -> FrameRuns] : n \in 1..MaxFrameRuns }

\* the objects and run records of every run list
FrameInputs ==
  { [heap |-> LoadRuns(<<>>, rl, <<>>).heap, runs |-> LoadRuns(<<>>, rl, <<>>).runs] :
      rl \in FrameRunLists }

FrameInit ==
  /\ cfg \in OrderConfigs
  /\ \E in \in FrameInputs :
       /\ heap = in.heap
       /\ hCall = [runs |-> in.runs, inputs |-> Len(in.heap), given |-> in.heap, outs |-> <<>>]
  /\ oRuns = <<>> /\ oCall = <<>>
  /\ CoreUnusedExceptCfg
  /\ CanonUnused /\ CallsUnused /\ ProcsUnused

\* what the caller gets
Returned(r) ==
  [refs |-> r.refs, damaged_parts |-> r.damaged_parts, potential_parts |-> r.potential_parts]

\* detected = union_parts(runs), and once more on the same records
HUnion ==
  /\ Len(hCall.outs) < MaxUnionCalls
  /\ heap' = union_parts_objects(heap, hCall.runs).heap
  /\ hCall' = [hCall EXCEPT !.outs = Append(@, Returned(union_parts_objects(heap, hCall.runs)))]
  /\ UNCHANGED <<cfg, prefVars, unionVars, mainVars, canonVars, callVars, procs,
                 oRuns, oCall>>

FrameNext == HUnion

SpecFrame == FrameInit /\ [][FrameNext]_vars

\* the dict objects of the run records
InputObjects == 1..hCall.inputs

\* C25: a call of union_parts writes to none of the dicts of the runs it
\* is given (no _votes, image or bbox_px added, no canonicalized value
\* written back), returns none of them, and returns the same lists when it
\* is called again on the same run records.
C25_InputsUntouched ==
  /\ [](/\ \A r \in InputObjects : heap[r] = hCall.given[r]
        /\ \A k \in 1..Len(hCall.outs) :
             /\ hCall.outs[k].refs \cap InputObjects = {}
             /\ hCall.outs[k].damaged_parts = hCall.outs[1].damaged_parts
             /\ hCall.outs[k].potential_parts = hCall.outs[1].potential_parts
             /\ hCall.outs[k].damaged_parts =
                  union_parts(RunValues(hCall.given, hCall.runs)).damaged_parts
             /\ hCall.outs[k].potential_parts =
                  union_parts(RunValues(hCall.given, hCall.runs)).potential_parts)
  /\ [][\A r \in InputObjects : heap'[r] = heap[r]]_vars

\* two calls were made on two runs whose candidates are merged: the second
\* candidate won and inherited the image of the first, the returned part
\* carries _votes = 2, and the name given as "Bonnet" is still "Bonnet" in
\* both run records
C25_Witness ==
  /\ Len(hCall.outs) = 2
  /\ hCall.inputs = 2
  /\ heap[1].name = T_Bonnet /\ heap[1].image = T_a_jpg /\ heap[1]._votes = -1
  /\ heap[2].name = T_Bonnet /\ heap[2].image = None /\ heap[2]._votes = -1
  /\ hCall.runs = << <<DictSlot(1)>>, <<DictSlot(2)>> >>
  /\ Len(hCall.outs[2].damaged_parts) = 1
  /\ hCall.outs[2].damaged_parts[1]._votes = 2
  /\ hCall.outs[2].damaged_parts[1].image = T_a_jpg
  /\ hCall.outs[2].damaged_parts[1].description = T_deep_dent
====
